---- MODULE Spec2Model ----
(***************************************************************************)
(* Model of the Draw.io viewer widget (src/src/widget.ts): the page        *)
(* controller held by DrawioWidget, its asynchronous load / render runs,   *)
(* and the per-page decode pipeline of _renderPage.                        *)
(*                                                                         *)
(* A stored document is described by what the DOM parser and the codec     *)
(* make of it: whether its text is empty or blank, whether parsing leaves  *)
(* a <parsererror> node, its <diagram> elements in document order, and     *)
(* whether an <mxGraphModel> element occurs in it.  A <diagram> element is *)
(* described by its payload kind (see PayloadKinds).                       *)
(***************************************************************************)
EXTENDS Integers, Sequences, FiniteSets, TLC

\* ---------------------------------------------------------------- bounds
\* number of pipeline runs (loads and navigations) issued after construction
MaxRuns == 3

\* length of the style strings the style parser is evaluated on
MaxStyleLen == 7
\* length of the XML strings the codec is evaluated on
MaxXmlLen == 3
\* number of ';'-separated parts of the styles shapes are created from
MaxShapeParts == 2
\* length of the cell values labels are created from
MaxLabelLen == 3
\* the boxes edges are created between stand at 0, 100, .. 100 * MaxGrid
MaxGrid == 2
\* number of cells of the models an <svg> is built from
MaxCells == 3
\* number of file types the host registry holds when the plugin is activated
MaxFileTypes == 3

\* ------------------------------------------------------------------ text
\* A string is a sequence of symbols.  A symbol is one character, or a word
\* that the code only compares whole or looks for as a substring ("ellipse",
\* "shape", ...); no word of the vocabulary occurs inside another one.
IsSpace(c) == c \in {" ", "\n", "\t"}

\* String.prototype.split with a one-character separator
RECURSIVE split(_, _)
split(s, sep) ==
    IF \A i \in 1..Len(s) : s[i] # sep THEN <<s>>
    ELSE LET i == CHOOSE i \in 1..Len(s) :
                      s[i] = sep /\ \A j \in 1..(i - 1) : s[j] # sep
         IN <<SubSeq(s, 1, i - 1)>> \o split(SubSeq(s, i + 1, Len(s)), sep)

RECURSIVE trimStart(_)
trimStart(s) == IF s # <<>> /\ IsSpace(s[1]) THEN trimStart(Tail(s)) ELSE s

RECURSIVE trimEnd(_)
trimEnd(s) ==
    IF s # <<>> /\ IsSpace(s[Len(s)]) THEN trimEnd(SubSeq(s, 1, Len(s) - 1)) ELSE s

\* String.prototype.trim
trim(s) == trimEnd(trimStart(s))

\* String.prototype.includes: t occurs in s as a run of consecutive symbols
includes(s, t) ==
    \E i \in 0..(Len(s) - Len(t)) : SubSeq(s, i + 1, i + Len(t)) = t

\* --------------------------------------------------------------- numbers
\* A number is the exact fraction num/den in lowest terms with den > 0; den = 0
\* stands for NaN.  The rounding of IEEE doubles is not modelled.
RECURSIVE gcd(_, _)
gcd(a, b) == IF b = 0 THEN a ELSE gcd(b, a % b)

frac(n, d) ==
    LET an == IF n < 0 THEN 0 - n ELSE n
        ad == IF d < 0 THEN 0 - d ELSE d
        g == gcd(an, ad)
    IN  [num |-> (IF d < 0 THEN 0 - n ELSE n) \div g, den |-> ad \div g]

int(n) == [num |-> n, den |-> 1]

NaN == [num |-> 0, den |-> 0]

isNaN(a) == a.den = 0

\* the least common denominator of a and b, and a's numerator over it
lcd(a, b) == (a.den \div gcd(a.den, b.den)) * b.den

numOver(a, d) == a.num * (d \div a.den)

plus(a, b) ==
    IF isNaN(a) \/ isNaN(b) THEN NaN
    ELSE frac(numOver(a, lcd(a, b)) + numOver(b, lcd(a, b)), lcd(a, b))

minus(a, b) ==
    IF isNaN(a) \/ isNaN(b) THEN NaN
    ELSE frac(numOver(a, lcd(a, b)) - numOver(b, lcd(a, b)), lcd(a, b))

times(a, b) ==
    IF isNaN(a) \/ isNaN(b) THEN NaN
    ELSE LET p == frac(a.num, b.den)
             q == frac(b.num, a.den)
         IN  frac(p.num * q.num, p.den * q.den)

\* a / b for a divisor that is not 0
over(a, b) ==
    IF isNaN(a) \/ isNaN(b) THEN NaN ELSE times(a, frac(b.den, b.num))

\* a < b; false when either is NaN
less(a, b) ==
    ~isNaN(a) /\ ~isNaN(b) /\ numOver(a, lcd(a, b)) < numOver(b, lcd(a, b))

\* Math.abs
mathAbs(a) == [num |-> IF a.num < 0 THEN 0 - a.num ELSE a.num, den |-> a.den]

\* Math.min
mathMin(a, b) ==
    IF isNaN(a) \/ isNaN(b) THEN NaN ELSE IF less(b, a) THEN b ELSE a

\* Math.max
mathMax(a, b) ==
    IF isNaN(a) \/ isNaN(b) THEN NaN ELSE IF less(a, b) THEN b ELSE a

Digits == <<"0", "1", "2", "3", "4", "5", "6", "7", "8", "9">>

isDigit(c) == \E i \in 1..10 : Digits[i] = c

\* the number written by a run of digits
RECURSIVE digitsValue(_)
digitsValue(s) ==
    IF s = <<>> THEN 0
    ELSE 10 * digitsValue(SubSeq(s, 1, Len(s) - 1))
         + (CHOOSE i \in 1..10 : Digits[i] = s[Len(s)]) - 1

\* how many digits s starts with
leadingDigits(s) ==
    CHOOSE n \in 0..Len(s) :
        /\ \A i \in 1..n : isDigit(s[i])
        /\ n = Len(s) \/ ~isDigit(s[n + 1])

\* parseFloat: after leading whitespace, the longest prefix of the form
\* [-]digits[.digits] (exponents are not modelled); NaN when it has no digit
parseFloat(str) ==
    LET decimal(whole, part) ==
            IF Len(whole) + Len(part) = 0 THEN NaN
            ELSE frac(digitsValue(whole) * (10 ^ Len(part)) + digitsValue(part),
                      10 ^ Len(part))
        fraction(rest) ==
            IF rest # <<>> /\ rest[1] = "."
            THEN SubSeq(rest, 2, leadingDigits(Tail(rest)) + 1)
            ELSE <<>>
        cut(u, n) == decimal(SubSeq(u, 1, n), fraction(SubSeq(u, n + 1, Len(u))))
        unsigned(u) == cut(u, leadingDigits(u))
        signed(t) ==
            IF t # <<>> /\ t[1] = "-" THEN minus(int(0), unsigned(Tail(t)))
            ELSE unsigned(t)
    IN  signed(trimStart(str))

\* ---------------------------------------------------------------- styles
\* A Record<string, string> is the sequence of its properties in insertion
\* order, each a key and a value.
has(m, k) == \E i \in 1..Len(m) : m[i].key = k

\* m[k], for a key m has
get(m, k) == m[CHOOSE i \in 1..Len(m) : m[i].key = k].value

\* m[k] || dflt: the value under k unless it is missing or the empty string
getOr(m, k, dflt) == IF has(m, k) /\ get(m, k) # <<>> THEN get(m, k) ELSE dflt

\* a store that leaves a property already present as it is
put_keepFirst(m, k, v) ==
    IF has(m, k) THEN m ELSE Append(m, [key |-> k, value |-> v])

\* result[k] = v
put(m, k, v) ==
    IF has(m, k)
    THEN [i \in 1..Len(m) |-> IF m[i].key = k THEN [key |-> k, value |-> v] ELSE m[i]]
    ELSE Append(m, [key |-> k, value |-> v])

\* a part handler that stores a part without '=' under an empty value
setPart_noValueCheck(result, part) ==
    LET kv == split(part, "=")
    IN  IF kv[1] # <<>>
        THEN put(result, trim(kv[1]), IF Len(kv) >= 2 THEN trim(kv[2]) ELSE <<>>)
        ELSE result

\* the callback of forEach in _parseStyle: const [key, value] = part.split('=')
\* takes the first two pieces; the part is stored when key is not the empty
\* string and value is not undefined
setPart(result, part) ==
    LET kv == split(part, "=")
    IN  IF kv[1] # <<>> /\ Len(kv) >= 2
        THEN put(result, trim(kv[1]), trim(kv[2]))
        ELSE result

RECURSIVE forEachPart(_, _)
forEachPart(result, parts) ==
    IF parts = <<>> THEN result
    ELSE forEachPart(setPart(result, Head(parts)), Tail(parts))

\* _parseStyle
parseStyle(style) ==
    IF style = <<>> THEN <<>> ELSE forEachPart(<<>>, split(style, ";"))

\* ---------------------------------------------------------------- shapes
\* A cell's value is HTML source: a sequence of text characters, markup tags
\* and character references.  The tags told apart are the line-break tag in
\* three spellings and the bold tags; "&lt;br&gt;" is the character reference
\* spelling of the four characters of a line-break tag.
HtmlTags == {"<br>", "<BR>", "<br/>", "<b>", "</b>"}

\* the text "<br>" as it stands in a string that is no longer HTML source
BrText == "<br> (text)"

\* _stripHtml: tmp.innerHTML = html; tmp.textContent.  Elements contribute
\* their text only (a <br> has none), a character reference its characters.
RECURSIVE stripHtml(_)
stripHtml(html) ==
    IF html = <<>> THEN <<>>
    ELSE (IF Head(html) \in HtmlTags THEN <<>>
          ELSE IF Head(html) = "&lt;br&gt;" THEN <<BrText>>
          ELSE <<Head(html)>>)
         \o stripHtml(Tail(html))

\* cleanText.split(/\n|<br\s*\/?>/i)
RECURSIVE splitLines(_)
splitLines(text) ==
    LET brk(c) == c \in {"\n", BrText}
    IN  IF \A i \in 1..Len(text) : ~brk(text[i]) THEN <<text>>
        ELSE LET i == CHOOSE i \in 1..Len(text) :
                          brk(text[i]) /\ \A j \in 1..(i - 1) : ~brk(text[j])
             IN  <<SubSeq(text, 1, i - 1)>>
                 \o splitLines(SubSeq(text, i + 1, Len(text)))

half(a) == times(a, frac(1, 2))

\* the branch of the shape chain taken, the rhombus test put before the
\* ellipse test
shapeBranch_rhombusFirst(shape, style) ==
    LET is(kw) == shape = <<kw>> \/ includes(style, <<kw>>)
    IN  IF is("rhombus") THEN "rhombus"
        ELSE IF is("ellipse") THEN "ellipse"
        ELSE IF is("hexagon") THEN "hexagon"
        ELSE IF is("triangle") THEN "triangle"
        ELSE IF is("cylinder") THEN "cylinder"
        ELSE "default"

\* the branch of the if / else-if chain of _createShape that is taken
shapeBranch(shape, style) ==
    LET is(kw) == shape = <<kw>> \/ includes(style, <<kw>>)
    IN  IF is("ellipse") THEN "ellipse"
        ELSE IF is("rhombus") THEN "rhombus"
        ELSE IF is("hexagon") THEN "hexagon"
        ELSE IF is("triangle") THEN "triangle"
        ELSE IF is("cylinder") THEN "cylinder"
        ELSE "default"

\* shapeElement as the chain leaves it: the SVG tag, the numbers of its
\* geometry attributes (cx cy rx ry, the polygon's points, or x y width
\* height) and the corner radii when set
shapeElement(x, y, width, height, style, styles) ==
    LET element(branch, r, b, cx, cy, hw) ==
          CASE branch = "ellipse" ->
               [tag |-> "ellipse", at |-> <<cx, cy, half(width), half(height)>>,
                corner |-> <<>>]
          [] branch = "rhombus" ->
               [tag |-> "polygon", at |-> <<cx, y, r, cy, cx, b, x, cy>>,
                corner |-> <<>>]
          [] branch = "hexagon" ->
               [tag |-> "polygon",
                at |-> <<plus(x, hw), y, minus(r, hw), y, r, cy,
                         minus(r, hw), b, plus(x, hw), b, x, cy>>,
                corner |-> <<>>]
          [] branch = "triangle" ->
               [tag |-> "polygon", at |-> <<cx, y, r, b, x, b>>, corner |-> <<>>]
          [] branch = "cylinder" ->
               [tag |-> "rect", at |-> <<x, y, width, height>>,
                corner |-> <<hw, half(half(half(height)))>>]
          [] OTHER ->
               [tag |-> "rect", at |-> <<x, y, width, height>>,
                corner |-> IF has(styles, <<"rounded">>)
                              /\ get(styles, <<"rounded">>) = <<"1">>
                           THEN <<int(5), int(5)>> ELSE <<>>]
    IN  element(shapeBranch(getOr(styles, <<"shape">>, <<>>), style),
                plus(x, width), plus(y, height),
                plus(x, half(width)), plus(y, half(height)), half(half(width)))

\* the <text> element built for a non-empty value: one text, or one tspan a
\* line, lineHeight apart and centred on the box
labelText(x, y, width, height, fontSize, value) ==
    LET text(cleanText, lines, lineHeight, startY) ==
            [x |-> plus(x, half(width)), y |-> plus(y, half(height)),
             fontSize |-> fontSize,
             textContent |-> IF Len(lines) = 1 THEN cleanText ELSE <<>>,
             tspans |-> IF Len(lines) = 1 THEN <<>>
                        ELSE [i \in 1..Len(lines) |->
                                 [x |-> plus(x, half(width)),
                                  y |-> plus(startY, times(int(i - 1), lineHeight)),
                                  textContent |-> trim(lines[i])]]]
        placed(cleanText, lines, lineHeight) ==
            text(cleanText, lines, lineHeight,
                 minus(plus(y, half(height)),
                       half(times(int(Len(lines) - 1), lineHeight))))
        broken(cleanText) ==
            placed(cleanText, splitLines(cleanText),
                   times(parseFloat(fontSize), frac(6, 5)))
    IN  broken(stripHtml(value))

\* _createShape: the <g> holding the shape element and, for a non-empty
\* value, the label
createShape(x, y, width, height, style, value) ==
    LET group(styles) ==
            [shape |-> shapeElement(x, y, width, height, style, styles),
             fill |-> IF (has(styles, <<"fillColor">>)
                            /\ get(styles, <<"fillColor">>) = <<"none">>)
                         \/ includes(style, <<"fillColor", "=", "none">>)
                      THEN <<"none">>
                      ELSE getOr(styles, <<"fillColor">>, <<"#ffffff">>),
             stroke |-> getOr(styles, <<"strokeColor">>, <<"#000000">>),
             strokeWidth |-> getOr(styles, <<"strokeWidth">>, <<"1">>),
             dashed |-> has(styles, <<"dashed">>)
                        /\ get(styles, <<"dashed">>) = <<"1">>,
             label |-> IF value = <<>> THEN <<>>
                       ELSE <<labelText(x, y, width, height,
                                        getOr(styles, <<"fontSize">>, <<"1", "2">>),
                                        value)>>]
    IN  group(parseStyle(style))

\* ----------------------------------------------------------------- cells
\* An attribute is <<>> when the element lacks it and <<text>> when it has
\* it; an element that may be missing is <<>> or <<element>> likewise.
\* An <mxGraphModel> is its <root> (<<>> when it has none, else the <mxCell>
\* elements below it in document order).  A cell is the record of its
\* attributes id, vertex, edge, style, value, source, target and of its
\* <mxGeometry> (attributes x, y, width, height; the <mxPoint> children
\* marked sourcePoint and targetPoint; the unmarked ones, `points`).
Absent == <<>>

Point(x, y) == [x |-> <<x>>, y |-> <<y>>]

Geometry(sourcePoint, targetPoint, points) ==
    [x |-> Absent, y |-> Absent, width |-> Absent, height |-> Absent,
     sourcePoint |-> sourcePoint, targetPoint |-> targetPoint, points |-> points]

VertexGeometry(x, y, width, height) ==
    [x |-> x, y |-> y, width |-> width, height |-> height,
     sourcePoint |-> Absent, targetPoint |-> Absent, points |-> <<>>]

Vertex(id, style, value, geometry) ==
    [id |-> <<id>>, vertex |-> <<<<"1">>>>, edge |-> Absent, style |-> style,
     value |-> value, source |-> Absent, target |-> Absent, geometry |-> geometry]

Edge(source, target, geometry) ==
    [id |-> <<<<"e">>>>, vertex |-> Absent, edge |-> <<<<"1">>>>, style |-> Absent,
     value |-> Absent, source |-> <<source>>, target |-> <<target>>,
     geometry |-> geometry]

\* ----------------------------------------------------------------- edges
\* el.getAttribute(name) || dflt: the default also replaces the empty text
attrOr(a, dflt) == IF a = <<>> \/ a[1] = <<>> THEN dflt ELSE a[1]

\* d || 1
orOne(d) == IF isNaN(d) \/ d.num = 0 THEN int(1) ELSE d

\* Math.min(Math.min(width / 2 / Math.abs(dx || 1),
\*                   height / 2 / Math.abs(dy || 1)) || 0, 0.5)
clipRatio(box, dx, dy) ==
    LET capped(r) == mathMin(IF isNaN(r) \/ r.num = 0 THEN int(0) ELSE r, frac(1, 2))
    IN  capped(mathMin(over(half(box.width), mathAbs(orOne(dx))),
                       over(half(box.height), mathAbs(orOne(dy)))))

\* the end points x1, y1, x2, y2 of an edge: the explicit source and target
\* points when the geometry has both, else the centres of the two boxes each
\* moved toward the other, else none (<<>>)
edgeEnds(geometry, source, target) ==
    LET sourcePoint == IF geometry = <<>> THEN <<>> ELSE geometry[1].sourcePoint
        targetPoint == IF geometry = <<>> THEN <<>> ELSE geometry[1].targetPoint
        clipped(x1, y1, x2, y2, dx, dy, sourceRatio, targetRatio) ==
            <<[x1 |-> plus(x1, times(dx, sourceRatio)),
               y1 |-> plus(y1, times(dy, sourceRatio)),
               x2 |-> minus(x2, times(dx, targetRatio)),
               y2 |-> minus(y2, times(dy, targetRatio))]>>
        toward(x1, y1, x2, y2, dx, dy) ==
            IF ~isNaN(dx) /\ ~isNaN(dy) /\ (dx.num # 0 \/ dy.num # 0)
            THEN clipped(x1, y1, x2, y2, dx, dy,
                         clipRatio(source[1], dx, dy), clipRatio(target[1], dx, dy))
            ELSE <<[x1 |-> x1, y1 |-> y1, x2 |-> x2, y2 |-> y2]>>
        centres(x1, y1, x2, y2) ==
            toward(x1, y1, x2, y2, minus(x2, x1), minus(y2, y1))
    IN  IF sourcePoint # <<>> /\ targetPoint # <<>>
        THEN <<[x1 |-> parseFloat(attrOr(sourcePoint[1].x, <<"0">>)),
                y1 |-> parseFloat(attrOr(sourcePoint[1].y, <<"0">>)),
                x2 |-> parseFloat(attrOr(targetPoint[1].x, <<"0">>)),
                y2 |-> parseFloat(attrOr(targetPoint[1].y, <<"0">>))]>>
        ELSE IF source # <<>> /\ target # <<>>
        THEN centres(plus(source[1].x, half(source[1].width)),
                     plus(source[1].y, half(source[1].height)),
                     plus(target[1].x, half(target[1].width)),
                     plus(target[1].y, half(target[1].height)))
        ELSE <<>>

\* _createEdge: null (<<>>) when the edge has no end points, else the <g>
\* with the path (start, the waypoints' attribute texts in order, end), its
\* markers and, for a non-empty value, the label
createEdge(cell, style, source, target) ==
    LET points == IF cell.geometry = <<>> THEN <<>> ELSE cell.geometry[1].points
        value == attrOr(cell.value, <<>>)
        group(styles, ends, endArrow, startArrow) ==
            IF ends = <<>> THEN <<>>
            ELSE <<[start |-> <<ends[1].x1, ends[1].y1>>,
                    via |-> [i \in 1..Len(points) |->
                                <<attrOr(points[i].x, <<"0">>),
                                  attrOr(points[i].y, <<"0">>)>>],
                    end |-> <<ends[1].x2, ends[1].y2>>,
                    stroke |-> getOr(styles, <<"strokeColor">>, <<"#000000">>),
                    strokeWidth |-> getOr(styles, <<"strokeWidth">>, <<"1">>),
                    dashed |-> has(styles, <<"dashed">>)
                               /\ get(styles, <<"dashed">>) = <<"1">>,
                    markerEnd |-> IF endArrow = <<"none">> THEN <<>>
                                  ELSE IF endArrow = <<"open">> THEN <<"arrow-open">>
                                  ELSE <<"arrow">>,
                    markerStart |-> IF startArrow = <<"none">> THEN <<>>
                                    ELSE <<"arrow">>,
                    label |-> IF value = <<>> THEN <<>>
                              ELSE <<[x |-> half(plus(ends[1].x1, ends[1].x2)),
                                      y |-> minus(half(plus(ends[1].y1, ends[1].y2)),
                                                  int(5)),
                                      textContent |-> stripHtml(value)]>>]>>
        styled(styles) ==
            group(styles, edgeEnds(cell.geometry, source, target),
                  getOr(styles, <<"endArrow">>, <<"classic">>),
                  getOr(styles, <<"startArrow">>, <<"none">>))
    IN  styled(parseStyle(style))

\* ------------------------------------------------------------------- svg
\* the box of a vertex: parseFloat(geometry.getAttribute(..) || default)
boxOf(geometry) ==
    [x |-> parseFloat(attrOr(geometry.x, <<"0">>)),
     y |-> parseFloat(attrOr(geometry.y, <<"0">>)),
     width |-> parseFloat(attrOr(geometry.width, <<"1", "0", "0">>)),
     height |-> parseFloat(attrOr(geometry.height, <<"4", "0">>))]

\* geometry && vertex
isVertex(cell) == cell.geometry # <<>> /\ cell.vertex = <<<<"1">>>>

\* the first pass: vertices.set(id, box) for every vertex with a geometry
RECURSIVE firstPass(_, _)
firstPass(cells, vertices) ==
    IF cells = <<>> THEN vertices
    ELSE firstPass(Tail(cells),
                   IF isVertex(Head(cells))
                   THEN put(vertices, attrOr(Head(cells).id, <<>>),
                            boxOf(Head(cells).geometry[1]))
                   ELSE vertices)

\* a table that answers an id it lacks with the default box at the origin
lookup_defaultBox(vertices, id) ==
    IF has(vertices, id) THEN <<get(vertices, id)>>
    ELSE <<[x |-> int(0), y |-> int(0), width |-> int(100), height |-> int(40)]>>

\* vertices.get(id): undefined (<<>>) for an id the table lacks
lookup(vertices, id) == IF has(vertices, id) THEN <<get(vertices, id)>> ELSE <<>>

\* a bounding rectangle over the corners x, y alone
extend_cornersOnly(bounds, box) ==
    IF bounds = <<>>
    THEN <<[minX |-> box.x, minY |-> box.y, maxX |-> box.x, maxY |-> box.y]>>
    ELSE <<[minX |-> mathMin(bounds[1].minX, box.x),
            minY |-> mathMin(bounds[1].minY, box.y),
            maxX |-> mathMax(bounds[1].maxX, box.x),
            maxY |-> mathMax(bounds[1].maxY, box.y)]>>

\* minX = Math.min(minX, x) ... maxY = Math.max(maxY, y + height); <<>> is
\* the initial Infinity, Infinity, -Infinity, -Infinity
extend(bounds, box) ==
    IF bounds = <<>>
    THEN <<[minX |-> box.x, minY |-> box.y,
            maxX |-> plus(box.x, box.width), maxY |-> plus(box.y, box.height)]>>
    ELSE <<[minX |-> mathMin(bounds[1].minX, box.x),
            minY |-> mathMin(bounds[1].minY, box.y),
            maxX |-> mathMax(bounds[1].maxX, plus(box.x, box.width)),
            maxY |-> mathMax(bounds[1].maxY, plus(box.y, box.height))]>>

\* what one cell adds in the second pass: its shape when it is a vertex with
\* a geometry, then its path when it is an edge and _createEdge returns one
primitivesOf(cell, vertices) ==
    LET style == attrOr(cell.style, <<>>)
        shape(box) ==
            <<[shape |-> <<createShape(box.x, box.y, box.width, box.height,
                                       style, attrOr(cell.value, <<>>))>>,
               path |-> <<>>]>>
        path(edgePath) ==
            IF edgePath # <<>> THEN <<[shape |-> <<>>, path |-> edgePath]>> ELSE <<>>
    IN  (IF isVertex(cell) THEN shape(boxOf(cell.geometry[1])) ELSE <<>>)
        \o (IF cell.edge = <<<<"1">>>>
            THEN path(createEdge(cell, style,
                                 lookup(vertices, attrOr(cell.source, <<>>)),
                                 lookup(vertices, attrOr(cell.target, <<>>))))
            ELSE <<>>)

\* a second pass in which an edge sees only as many entries of the table as
\* shapes were drawn before it
RECURSIVE secondPass_tableSoFar(_, _, _)
secondPass_tableSoFar(cells, vertices, acc) ==
    IF cells = <<>> THEN acc
    ELSE LET drawn == Cardinality({i \in 1..Len(acc.g) : acc.g[i].shape # <<>>})
             known == IF drawn < Len(vertices) THEN drawn ELSE Len(vertices)
         IN  secondPass_tableSoFar(Tail(cells), vertices,
                 [bounds |-> IF isVertex(Head(cells))
                             THEN extend(acc.bounds, boxOf(Head(cells).geometry[1]))
                             ELSE acc.bounds,
                  g |-> acc.g \o primitivesOf(Head(cells),
                                              SubSeq(vertices, 1, known))])

\* the second pass over the cells: the bounding rectangle and the children
\* of the <g>
RECURSIVE secondPass(_, _, _)
secondPass(cells, vertices, acc) ==
    IF cells = <<>> THEN acc
    ELSE secondPass(Tail(cells), vertices,
                    [bounds |-> IF isVertex(Head(cells))
                                THEN extend(acc.bounds, boxOf(Head(cells).geometry[1]))
                                ELSE acc.bounds,
                     g |-> acc.g \o primitivesOf(Head(cells), vertices)])

\* _mxGraphToSvg: the <svg> element; viewBox is <<>> when the attribute is
\* not set, text the content of the <text> child when there is one, g the
\* children of the <g> (<<>> also when there is no <g>)
mxGraphToSvg(model) ==
    IF model.root = <<>>
    THEN [viewBox |-> <<>>, text |-> <<"Empty diagram">>, g |-> <<>>]
    ELSE LET cells == model.root[1]
             padded(b) ==
                 <<minus(b.minX, int(30)), minus(b.minY, int(30)),
                   plus(minus(b.maxX, b.minX), times(int(2), int(30))),
                   plus(minus(b.maxY, b.minY), times(int(2), int(30)))>>
             svg(out) ==
                 [viewBox |-> IF out.bounds # <<>> THEN padded(out.bounds[1])
                              ELSE <<int(0), int(0), int(400), int(300)>>,
                  text |-> <<>>,
                  g |-> out.g]
         IN  svg(secondPass(cells, firstPass(cells, <<>>),
                            [bounds |-> <<>>, g |-> <<>>]))

\* ------------------------------------------------------------ codec text
\* In the codec a string is the sequence of its character codes and a byte
\* array the sequence of its bytes.  The characters the codec tells apart:
Ch == [plus |-> 43, minus |-> 45, slash |-> 47, eq |-> 61, under |-> 95,
       pct |-> 37, replacement |-> 65533]

Ok(v) == [ok |-> TRUE, val |-> v]
Failed == [ok |-> FALSE, val |-> <<>>]

\* String.prototype.replace(/c/g, d)
replaceAll(s, c, d) == [i \in 1..Len(s) |-> IF s[i] = c THEN d ELSE s[i]]

\* the value of a base64 character: A-Z, a-z, 0-9, '+', '/'; -1 for any other
sextetOf(c) ==
    IF c >= 65 /\ c <= 90 THEN c - 65
    ELSE IF c >= 97 /\ c <= 122 THEN c - 71
    ELSE IF c >= 48 /\ c <= 57 THEN c + 4
    ELSE IF c = Ch.plus THEN 62
    ELSE IF c = Ch.slash THEN 63
    ELSE 0 - 1

\* bit i (from 0, most significant first) of a sequence of w-bit units
bitOf(units, w, i) == (units[(i \div w) + 1] \div (2 ^ (w - 1 - (i % w)))) % 2

\* unit k (from 1) of v bits read from a sequence of w-bit units; bits past
\* the end read as 0
regroup(units, w, v, k) ==
    LET bit(j) == IF j < w * Len(units) THEN bitOf(units, w, j) ELSE 0
        b(j) == bit(v * (k - 1) + j) * (2 ^ (v - 1 - j))
    IN  IF v = 6 THEN b(0) + b(1) + b(2) + b(3) + b(4) + b(5)
        ELSE b(0) + b(1) + b(2) + b(3) + b(4) + b(5) + b(6) + b(7)

\* atob (forgiving base64 decode): one or two '=' are dropped from an input
\* whose length is a multiple of 4; a remaining length of 1 mod 4 or a
\* character outside the alphabet throws; every 4 characters give 3 bytes,
\* the bits left over at the end are discarded
atob(str) ==
    LET n == Len(str)
        pad == IF n % 4 = 0 /\ n > 0 /\ str[n] = Ch.eq
               THEN (IF str[n - 1] = Ch.eq THEN 2 ELSE 1)
               ELSE 0
        data == SubSeq(str, 1, n - pad)
        sextets == [i \in 1..Len(data) |-> sextetOf(data[i])]
    IN  IF Len(data) % 4 = 1 \/ \E i \in 1..Len(data) : sextets[i] < 0
        THEN Failed
        ELSE Ok([k \in 1..((6 * Len(data)) \div 8) |-> regroup(sextets, 6, 8, k)])

\* DecompressionStream('deflate-raw') on a stream of stored blocks: a block is
\* its header byte (bit 0 BFINAL, bits 1-2 BTYPE = 00), LEN and NLEN = ~LEN as
\* two little-endian bytes each, and LEN bytes of data; a truncated block, a
\* wrong NLEN or bytes after the final block make the stream fail.  Blocks
\* compressed with Huffman codes (BTYPE 01, 10) are not modelled: a stream
\* holding one counts as failing.
RECURSIVE inflateRaw(_)
inflateRaw(b) ==
    IF Len(b) < 5 THEN Failed
    ELSE LET bfinal == b[1] % 2
             btype == (b[1] \div 2) % 4
             len == b[2] + 256 * b[3]
             nlen == b[4] + 256 * b[5]
             rest == SubSeq(b, 6 + len, Len(b))
         IN  IF btype # 0 \/ len + nlen # 65535 \/ Len(b) < 5 + len THEN Failed
             ELSE IF bfinal = 1
                  THEN (IF rest = <<>> THEN Ok(SubSeq(b, 6, 5 + len)) ELSE Failed)
                  ELSE LET r == inflateRaw(rest)
                       IN  IF r.ok THEN Ok(SubSeq(b, 6, 5 + len) \o r.val) ELSE Failed

\* the chunks the reader yields for the inflated bytes, cut after `cut` bytes
\* (an empty chunk is not delivered)
readChunks(data, cut) ==
    SelectSeq(<<SubSeq(data, 1, cut), SubSeq(data, cut + 1, Len(data))>>,
              LAMBDA c : c # <<>>)

\* a concatenation that writes every chunk at offset 0
concatChunks_noOffset(chunks) ==
    LET total == IF chunks = <<>> THEN 0
                 ELSE Len(chunks[1]) + (IF Len(chunks) > 1 THEN Len(chunks[2]) ELSE 0)
    IN  [i \in 1..total |->
            IF Len(chunks) > 1 /\ i <= Len(chunks[2]) THEN chunks[2][i]
            ELSE IF i <= Len(chunks[1]) THEN chunks[1][i]
            ELSE 0]

\* result = new Uint8Array(totalLength); result.set(chunk, offset) for each
\* chunk in the order read, offset advancing by the chunk's length
RECURSIVE concatChunks(_)
concatChunks(chunks) ==
    IF chunks = <<>> THEN <<>> ELSE Head(chunks) \o concatChunks(Tail(chunks))

\* new TextDecoder().decode on bytes: an ASCII byte is its character; a byte
\* from 128 up is shown as U+FFFD (multi-byte sequences are not modelled)
textDecode(bytes) ==
    [i \in 1..Len(bytes) |-> IF bytes[i] < 128 THEN bytes[i] ELSE Ch.replacement]

\* the value of a hexadecimal digit; -1 for any other character
hexValue(c) ==
    IF c >= 48 /\ c <= 57 THEN c - 48
    ELSE IF c >= 65 /\ c <= 70 THEN c - 55
    ELSE IF c >= 97 /\ c <= 102 THEN c - 87
    ELSE 0 - 1

\* the byte written %XY at position i of s; -1 when no escape stands there
escapedByte(s, i) ==
    IF i + 2 <= Len(s) /\ s[i] = Ch.pct /\ hexValue(s[i + 1]) >= 0 /\ hexValue(s[i + 2]) >= 0
    THEN 16 * hexValue(s[i + 1]) + hexValue(s[i + 2])
    ELSE 0 - 1

\* decodeURIComponent: an escape below %80 is its character, %C2..%DF followed
\* by an escape %80..%BF is the two-byte character they encode, any other
\* '%' throws (longer sequences are not modelled and count as throwing);
\* every other character stands for itself
RECURSIVE decodeURIComponent(_)
decodeURIComponent(s) ==
    IF s = <<>> THEN Ok(<<>>)
    ELSE IF s[1] # Ch.pct
    THEN LET r == decodeURIComponent(Tail(s))
         IN  IF r.ok THEN Ok(<<s[1]>> \o r.val) ELSE Failed
    ELSE LET b1 == escapedByte(s, 1)
             b2 == escapedByte(s, 4)
         IN  IF b1 >= 0 /\ b1 < 128
             THEN LET r == decodeURIComponent(SubSeq(s, 4, Len(s)))
                  IN  IF r.ok THEN Ok(<<b1>> \o r.val) ELSE Failed
             ELSE IF b1 >= 194 /\ b1 <= 223 /\ b2 >= 128 /\ b2 <= 191
             THEN LET r == decodeURIComponent(SubSeq(s, 7, Len(s)))
                  IN  IF r.ok THEN Ok(<<(b1 - 192) * 64 + (b2 - 128)>> \o r.val)
                      ELSE Failed
             ELSE Failed

\* _decompressDiagram on the text `compressed`, the reader cutting the
\* inflated bytes into chunks after `cut` bytes; Failed when a step throws
decompressText(compressed, cut) ==
    LET decoded == atob(replaceAll(replaceAll(compressed, Ch.minus, Ch.plus),
                                   Ch.under, Ch.slash))
        inflated == inflateRaw(decoded.val)
        result == concatChunks(readChunks(inflated.val,
                                          IF cut <= Len(inflated.val) THEN cut
                                          ELSE Len(inflated.val)))
    IN  IF ~decoded.ok THEN Failed
        ELSE IF ~inflated.ok THEN Failed
        ELSE decodeURIComponent(textDecode(result))

\* ------------------------------------------------------------- documents
\* Payload of one <diagram> element, by what _renderPage meets in it:
\*   embedded    an <mxGraphModel> child element (uncompressed format)
\*   empty       no text content
\*   plain       text containing "<mxGraphModel" that parses to a model
\*   plainBad    text containing "<mxGraphModel" that yields no model element
\*   zOk         compressed text; decodes to text that parses to a model
\*   zNoTag      compressed text; decodes to text without "<mxGraphModel"
\*   zBadInner   compressed text; decodes to text with the tag but no model
\*   badB64      text on which atob throws
\*   badInflate  base64 text whose bytes are no raw-deflate stream
\*   badPct      inflates to text on which decodeURIComponent throws
PayloadKinds ==
    {"embedded", "empty", "plain", "plainBad", "zOk", "zNoTag", "zBadInner",
     "badB64", "badInflate", "badPct"}

\* The documents the host can hand to the widget.
\*   text    "empty" (""), "blank" (whitespace only) or "markup"
\*   perr    the DOM parser leaves a <parsererror> node (diag: its text)
\*   pages   the payload kinds of the <diagram> elements, in document order
\*   model   an <mxGraphModel> element occurs in the document
DocTable ==
    [ empty    |-> [text |-> "empty",  perr |-> TRUE,  diag |-> "no element found",
                    pages |-> << >>, model |-> FALSE],
      blank    |-> [text |-> "blank",  perr |-> TRUE,  diag |-> "no element found",
                    pages |-> << >>, model |-> FALSE],
      broken   |-> [text |-> "markup", perr |-> TRUE,  diag |-> "mismatched tag",
                    pages |-> <<"embedded">>, model |-> TRUE],
      nomodel  |-> [text |-> "markup", perr |-> FALSE, diag |-> "",
                    pages |-> << >>, model |-> FALSE],
      bare     |-> [text |-> "markup", perr |-> FALSE, diag |-> "",
                    pages |-> << >>, model |-> TRUE],
      one      |-> [text |-> "markup", perr |-> FALSE, diag |-> "",
                    pages |-> <<"zOk">>, model |-> FALSE],
      two      |-> [text |-> "markup", perr |-> FALSE, diag |-> "",
                    pages |-> <<"embedded", "zOk">>, model |-> TRUE],
      three    |-> [text |-> "markup", perr |-> FALSE, diag |-> "",
                    pages |-> <<"plain", "badB64", "zNoTag">>, model |-> FALSE],
      codec    |-> [text |-> "markup", perr |-> FALSE, diag |-> "",
                    pages |-> <<"badInflate", "badPct", "zBadInner">>, model |-> FALSE],
      texts    |-> [text |-> "markup", perr |-> FALSE, diag |-> "",
                    pages |-> <<"plainBad", "empty">>, model |-> FALSE] ]

Docs == DOMAIN DocTable

\* _diagramXml before the first successful parse (null)
NoDoc == "null"

\* content.trim() === '' / !content
IsBlank(d) == DocTable[d].text \in {"empty", "blank"}

\* doc.querySelector('parsererror')
parseError(d) == DocTable[d].perr

\* doc.querySelectorAll('diagram')
diagrams(d) == DocTable[d].pages

\* doc.querySelector('mxGraphModel') on a document without <diagram> elements
hasBareModel(d) == DocTable[d].model

\* ---------------------------------------------------------------- errors
\* new Error(...) of widget.ts, by message:
\*   EmptyDocument      'Empty diagram file'
\*   InvalidDocument    'Invalid XML: ' + parseError.textContent
\*   NoContent          'No diagram content found'
\*   PageNotFound       `Page ${pageIndex + 1} not found`
\*   UnparsableContent  'Could not parse diagram content'
Err(type, diag, page) == [type |-> type, diag |-> diag, page |-> page]

NoErr == Err("none", "", 0)

\* ----------------------------------------------------------------- codec
\* atob(compressed.replace(/-/g, '+').replace(/_/g, '/')) returns
atobOk(k) == k # "badB64"

\* the DecompressionStream('deflate-raw') reader reaches done without error
inflateOk(k) == k # "badInflate"

\* decodeURIComponent(...) returns
percentOk(k) == k # "badPct"

\* _decompressDiagram resolves (TRUE) or rejects (FALSE)
decompressDiagram(k) == atobOk(k) /\ inflateOk(k) /\ percentOk(k)

\* diagramContent.includes('<mxGraphModel') on the diagram's own text
textHasTag(k) == k \in {"plain", "plainBad"}

\* the same test on the text _decompressDiagram resolved with
decodedHasTag(k) == k \in {"zOk", "zBadInner"}

\* innerDoc.querySelector('mxGraphModel') finds an element
innerModel(k) == k \in {"plain", "zOk"}

\* ------------------------------------------------------- rendered output
\* this._container.innerHTML: the loading placeholder written by _loadDiagram,
\* or the <svg> _renderMxGraphModel built from the model of page `page` of
\* document `doc` (page 0 for the bare model of a document without <diagram>)
\* `tree` is what the content holds of an <svg>: for the <svg> of a page the
\* element _mxGraphToSvg returns, for the placeholder nothing.
Loading ==
    [kind |-> "loading", doc |-> NoDoc, page |-> 0,
     tree |-> [viewBox |-> <<>>, text |-> <<>>, g |-> <<>>]]

\* the <mxGraphModel> elements of the stored documents, by the payload they
\* are found in: an embedded one with a labelled vertex, a plain-text one
\* with an edge ahead of its two vertices, a compressed one with an ellipse,
\* and the bare one, a root without cells
PageModels ==
    [embedded |-> [root |-> <<<<Vertex(<<"a">>, Absent, <<<<"A">>>>,
                                      <<VertexGeometry(Absent, Absent, Absent,
                                                       Absent)>>)>>>>],
     plain |-> [root |-> <<<<Edge(<<"a">>, <<"b">>, Absent),
                            Vertex(<<"a">>, Absent, Absent,
                                   <<VertexGeometry(Absent, Absent, Absent,
                                                    Absent)>>),
                            Vertex(<<"b">>, Absent, Absent,
                                   <<VertexGeometry(<<<<"2", "0", "0">>>>, Absent,
                                                    Absent, Absent)>>)>>>>],
     zOk |-> [root |-> <<<<Vertex(<<"b">>, <<<<"ellipse">>>>, Absent,
                                 <<VertexGeometry(<<<<"2", "0", "0">>>>, Absent,
                                                  Absent, Absent)>>)>>>>],
     bare |-> [root |-> <<<<>>>>]]

\* the payload whose model _renderPage hands to _renderMxGraphModel for page
\* i of document d: the bare model of a document without <diagram>, else the
\* model in diagram i (pages that are never rendered count as the bare model)
modelOf(d, i) ==
    IF Len(diagrams(d)) = 0 \/ i + 1 > Len(diagrams(d)) THEN "bare"
    ELSE IF diagrams(d)[i + 1] \in {"embedded", "plain", "zOk"}
    THEN diagrams(d)[i + 1]
    ELSE "bare"

\* const svg = this._mxGraphToSvg(model), for each of the models
PageTrees == [k \in DOMAIN PageModels |-> mxGraphToSvg(PageModels[k])]

Svg(d, i) ==
    [kind |-> "svg", doc |-> d, page |-> i, tree |-> PageTrees[modelOf(d, i)]]

\* a _renderMxGraphModel that appends the <svg> without emptying the
\* container first
renderMxGraphModel_append(old, svg) ==
    [svg EXCEPT !.tree = [@ EXCEPT !.g = old.tree.g \o @]]

\* _renderMxGraphModel: this._container.innerHTML = ''; appendChild(svg).
\* The <svg> is complete when it is attached; what the container held is gone.
renderMxGraphModel(old, svg) == svg

\* outcomes of a stretch of _renderPage
Rendered(svg) == [res |-> "render", svg |-> svg,     err |-> NoErr, payload |-> "none"]

Thrown(e)     == [res |-> "throw",  svg |-> Loading, err |-> e,     payload |-> "none"]

Awaiting(k)   == [res |-> "await",  svg |-> Loading, err |-> NoErr, payload |-> k]

Returned      == [res |-> "return", svg |-> Loading, err |-> NoErr, payload |-> "none"]

\* _renderPage from the decompression result on: `decoded` tells whether
\* diagramContent was replaced by the text _decompressDiagram resolved with
\* (TRUE) or is still the diagram's own text (FALSE: not attempted, or caught)
renderPageTail(d, pageIndex, k, decoded) ==
    LET hasTag == IF decoded THEN decodedHasTag(k) ELSE textHasTag(k)
    IN  IF hasTag /\ innerModel(k)
        THEN Rendered(Svg(d, pageIndex))
        ELSE Thrown(Err("UnparsableContent", "", 0))

\* renderPage without the `if (!diagram)` check: an index past the last
\* <diagram> is served with the last one
renderPage_clamped(d, pageIndex) ==
    IF d = NoDoc
    THEN Returned
    ELSE IF Len(diagrams(d)) = 0
    THEN IF hasBareModel(d)
         THEN Rendered(Svg(d, 0))
         ELSE Thrown(Err("NoContent", "", 0))
    ELSE LET p == IF pageIndex + 1 > Len(diagrams(d))
                  THEN Len(diagrams(d)) - 1 ELSE pageIndex
             k == diagrams(d)[p + 1]
         IN  IF k = "embedded"
             THEN Rendered(Svg(d, p))
             ELSE IF k # "empty" /\ ~textHasTag(k)
             THEN Awaiting(k)
             ELSE renderPageTail(d, p, k, FALSE)

\* _renderPage up to its first suspension: the await of _decompressDiagram
renderPage(d, pageIndex) ==
    IF d = NoDoc
    THEN Returned
    ELSE IF Len(diagrams(d)) = 0
    THEN IF hasBareModel(d)
         THEN Rendered(Svg(d, 0))
         ELSE Thrown(Err("NoContent", "", 0))
    ELSE IF pageIndex + 1 > Len(diagrams(d))
    THEN Thrown(Err("PageNotFound", "", pageIndex + 1))
    ELSE LET k == diagrams(d)[pageIndex + 1]
         IN  IF k = "embedded"
             THEN Rendered(Svg(d, pageIndex))
             ELSE IF k # "empty" /\ ~textHasTag(k)
             THEN Awaiting(k)
             ELSE renderPageTail(d, pageIndex, k, FALSE)

\* afterDecompress without the try / catch: the codec's failure is thrown on
afterDecompress_noCatch(d, pageIndex, k) ==
    IF decompressDiagram(k)
    THEN renderPageTail(d, pageIndex, k, TRUE)
    ELSE Thrown(Err("DecodeError", "", 0))

\* _renderPage after `await this._decompressDiagram(diagramContent)` inside
\* try / catch: a rejection is caught and leaves diagramContent as it was
afterDecompress(d, pageIndex, k) ==
    renderPageTail(d, pageIndex, k, decompressDiagram(k))

\* loadError without the <parsererror> test
loadError_blankOnly(c) ==
    IF IsBlank(c) THEN Err("EmptyDocument", "", 0) ELSE NoErr

\* loadError with the markup parsed before the blank test
loadError_parseFirst(c) ==
    IF parseError(c) THEN Err("InvalidDocument", DocTable[c].diag, 0)
    ELSE IF IsBlank(c) THEN Err("EmptyDocument", "", 0)
    ELSE NoErr

\* the checks of _loadDiagram and _renderDiagram on the text read from the
\* model that throw before anything is stored: blank text, then <parsererror>
loadError(c) ==
    IF IsBlank(c) THEN Err("EmptyDocument", "", 0)
    ELSE IF parseError(c) THEN Err("InvalidDocument", DocTable[c].diag, 0)
    ELSE NoErr

\* countPages without the `|| 1`
countPages_noDefault(d) == Len(diagrams(d))

\* this._totalPages = diagrams.length || 1
countPages(d) == IF Len(diagrams(d)) = 0 THEN 1 ELSE Len(diagrams(d))

\* ----------------------------------------------------------------- state
VARIABLES
    ctxReady,        \* this._context.ready has resolved
    subscribed,      \* the constructor's context.ready.then callback has run
    connected,       \* _onContentChanged is connected to model.contentChanged
    isDisposed,      \* this.isDisposed
    content,         \* this._context.model.toString()
    diagramXml,      \* this._diagramXml
    currentPage,     \* this._currentPage
    totalPages,      \* this._totalPages
    navSetup,        \* the toolbar holds the #prevPage / #nextPage buttons
    container,       \* this._container.innerHTML
    containerShown,  \* this._container.style.display is not 'none'
    errorShown,      \* this._errorDiv.style.display is 'block'
    errorMsg,        \* the error whose message this._errorDiv presents
    ready,           \* this._ready.promise: Pending, Resolved or Rejected(error)
    runs,            \* the suspended pipeline runs, in the order they started
    issued,          \* number of pipeline runs started so far
    last,            \* the operation that led to this state, and what it did
    fn,              \* the rendering function under evaluation ("none": the widget runs)
    arg,             \* the arguments it is called with
    ret              \* what it returned (<<>> until it has)

vars == <<ctxReady, subscribed, connected, isDisposed, content, diagramXml,
          currentPage, totalPages, navSetup, container, containerShown,
          errorShown, errorMsg, ready, runs, issued, last, fn, arg, ret>>

\* the variables of a function evaluation; the widget's operations leave them alone
pure == <<fn, arg, ret>>

\* A suspended run: a _loadDiagram call ("load") or a _renderPage call made by
\* _updatePageDisplay ("nav"); it waits for this._context.ready ("awaitCtx")
\* or inside _decompressDiagram ("decomp").  id is its rank among the runs
\* started; doc, idx and payload are the locals _renderPage holds across the
\* await (the parsed _diagramXml, pageIndex and diagramContent).
Run(kind, pc, id, d, idx, k) ==
    [kind |-> kind, pc |-> pc, id |-> id, doc |-> d, idx |-> idx, payload |-> k]

\* what the widget shows: the error panel when it is displayed (the container
\* is then hidden), otherwise the container's content
Visible ==
    IF errorShown THEN [kind |-> "error", err |-> errorMsg]
    ELSE IF containerShown THEN [kind |-> "page", out |-> container]
    ELSE [kind |-> "nothing"]

\* the record kept in `last`: op is the operation, kind/id the run it belongs
\* to (id 0: none), res what that stretch of the run ended in ("none", "render",
\* "throw", "await", "return", "noop"), err the error thrown, doc/idx the
\* document and page index the run renders, and the pre-state values
Last(op, kind, id, res, err, d, idx) ==
    [op |-> op, kind |-> kind, id |-> id, res |-> res, err |-> err,
     doc |-> d, idx |-> idx,
     prePage |-> currentPage, preTotal |-> totalPages, preXml |-> diagramXml,
     preContainer |-> container, preVisible |-> Visible, preIssued |-> issued,
     preReady |-> ready, preRuns |-> runs]

RemoveAt(s, i) == [j \in 1..(Len(s) - 1) |-> IF j < i THEN s[j] ELSE s[j + 1]]

\* the states of the promise of a PromiseDelegate: pending, resolved, or
\* rejected with a reason
Pending == [state |-> "pending", reason |-> NoErr]

Resolved == [state |-> "resolved", reason |-> NoErr]

Rejected(error) == [state |-> "rejected", reason |-> error]

\* a PromiseDelegate whose every resolve / reject takes effect
settle_overwrite(p, how) == how

\* PromiseDelegate: the first resolve / reject settles it, later ones do nothing
settle(p, how) == IF p = Pending THEN how ELSE p

\* the widget after its constructor has returned
constructed ==
    /\ ctxReady = FALSE
    /\ subscribed = FALSE
    /\ connected = FALSE
    /\ isDisposed = FALSE
    /\ content = "empty"
    /\ diagramXml = NoDoc
    /\ currentPage = 0
    /\ totalPages = 1
    /\ navSetup = FALSE
    /\ container = Loading
    /\ containerShown = TRUE
    /\ errorShown = FALSE
    /\ errorMsg = NoErr
    /\ ready = Pending
    /\ runs = <<Run("load", "awaitCtx", 1, NoDoc, 0, "none")>>
    /\ issued = 1
    /\ last = [op |-> "construct", kind |-> "load", id |-> 1, res |-> "await",
               err |-> NoErr, doc |-> NoDoc, idx |-> 0,
               prePage |-> 0, preTotal |-> 1, preXml |-> NoDoc,
               preContainer |-> Loading,
               preVisible |-> [kind |-> "page", out |-> Loading],
               preIssued |-> 0, preReady |-> Pending, preRuns |-> << >>]

\* _showError
showError(e) ==
    /\ containerShown' = FALSE
    /\ errorShown' = TRUE
    /\ errorMsg' = e

\* commit, had the widget kept a run token: a run that is no longer the
\* latest one started discards its result
commit_latestOnly(r, out) ==
    IF r.id < issued
    THEN UNCHANGED <<container, containerShown, errorShown, errorMsg, ready>>
    ELSE /\ container' = IF out.res = "render"
                    THEN renderMxGraphModel(container, out.svg) ELSE container
         /\ IF out.res = "throw" /\ r.kind = "load"
            THEN showError(out.err)
            ELSE UNCHANGED <<containerShown, errorShown, errorMsg>>
         /\ ready' = IF r.kind # "load" THEN ready
                     ELSE IF out.res = "throw" THEN settle(ready, Rejected(out.err))
                     ELSE settle(ready, Resolved)

\* what the end of run r commits: _renderMxGraphModel on success; on failure
\* the catch of _loadDiagram for a load, nothing for the un-awaited promise of
\* _updatePageDisplay
commit(r, out) ==
    /\ container' = IF out.res = "render"
                    THEN renderMxGraphModel(container, out.svg) ELSE container
    /\ IF out.res = "throw" /\ r.kind = "load"
       THEN showError(out.err)
       ELSE UNCHANGED <<containerShown, errorShown, errorMsg>>
    /\ ready' = IF r.kind # "load" THEN ready
                ELSE IF out.res = "throw" THEN settle(ready, Rejected(out.err))
                ELSE settle(ready, Resolved)

\* A continuation that can already run (a microtask) runs before any later
\* task: the continuation of `await this._context.ready` of a load, and the
\* constructor's context.ready.then(...) callback
microtaskPending ==
    ctxReady /\ (~subscribed \/ \E i \in 1..Len(runs) : runs[i].pc = "awaitCtx")

\* the host context becomes ready with document d loaded
contextReady(d) ==
    /\ ~ctxReady
    /\ ctxReady' = TRUE
    /\ content' = d
    /\ last' = Last("contextReady", "none", 0, "none", NoErr, NoDoc, 0)
    /\ UNCHANGED pure
    /\ UNCHANGED <<subscribed, isDisposed>>
    /\ UNCHANGED <<connected, diagramXml, currentPage, totalPages, navSetup,
                   container, containerShown, errorShown, errorMsg, ready,
                   runs, issued>>

\* the constructor's context.ready.then(...) callback, registered after the
\* first _loadDiagram's await: it connects _onContentChanged to contentChanged
connectListener ==
    /\ ctxReady
    /\ ~subscribed
    /\ \A i \in 1..Len(runs) : runs[i].pc # "awaitCtx"
    /\ subscribed' = TRUE
    /\ connected' = TRUE
    /\ last' = Last("connectListener", "none", 0, "none", NoErr, NoDoc, 0)
    /\ UNCHANGED pure
    /\ UNCHANGED isDisposed
    /\ UNCHANGED <<ctxReady, content, diagramXml, currentPage, totalPages,
                   navSetup, container, containerShown, errorShown, errorMsg,
                   ready, runs, issued>>

\* the host changes the document to d and signals contentChanged:
\* _onContentChanged starts _loadDiagram, which runs to its await of context.ready
onContentChanged(d) ==
    /\ connected
    /\ issued <= MaxRuns
    /\ content' = d
    /\ container' = Loading
    /\ issued' = issued + 1
    /\ runs' = Append(runs, Run("load", "awaitCtx", issued + 1, NoDoc, 0, "none"))
    /\ last' = Last("contentChanged", "load", issued + 1, "await", NoErr, NoDoc, 0)
    /\ UNCHANGED pure
    /\ UNCHANGED <<subscribed, isDisposed>>
    /\ UNCHANGED <<ctxReady, connected, diagramXml, currentPage, totalPages,
                   navSetup, containerShown, errorShown, errorMsg, ready>>

\* _loadDiagram resumes after `await this._context.ready` (continuations of
\* one promise run in the order they were registered) and runs through
\* _renderDiagram into _renderPage, to the end or to the await of
\* _decompressDiagram
loadDiagram(i) ==
    /\ ctxReady
    /\ i \in 1..Len(runs)
    /\ runs[i].pc = "awaitCtx"
    /\ \A j \in 1..(i - 1) : runs[j].pc # "awaitCtx"
    /\ LET r == runs[i]
           e == loadError(content)
           failed == e # NoErr
           ends(out) ==
               /\ IF out.res = "await"
                  THEN /\ runs' = [runs EXCEPT ![i] =
                              Run("load", "decomp", r.id, content, currentPage,
                                  out.payload)]
                       /\ UNCHANGED <<container, containerShown, errorShown,
                                      errorMsg, ready>>
                  ELSE /\ runs' = RemoveAt(runs, i)
                       /\ commit(r, out)
               /\ last' = Last("loadDiagram", "load", r.id, out.res, out.err,
                               IF failed THEN NoDoc ELSE content, currentPage)
       IN  /\ diagramXml' = IF failed THEN diagramXml ELSE content
           /\ totalPages' = IF failed THEN totalPages ELSE countPages(content)
           /\ navSetup' = IF failed THEN navSetup
                          ELSE (navSetup \/ countPages(content) > 1)
           /\ ends(IF failed THEN Thrown(e) ELSE renderPage(content, currentPage))
    /\ UNCHANGED pure
    /\ UNCHANGED <<subscribed, isDisposed>>
    /\ UNCHANGED <<ctxReady, connected, content, currentPage, issued>>

\* a run resumes after `await this._decompressDiagram(...)`: the catch keeps
\* the diagram's own text when the codec failed; then model extraction
decompressed(i) ==
    /\ ~microtaskPending
    /\ i \in 1..Len(runs)
    /\ runs[i].pc = "decomp"
    /\ LET r == runs[i]
           ends(out) ==
               /\ commit(r, out)
               /\ last' = Last("decompressed", r.kind, r.id, out.res, out.err,
                               r.doc, r.idx)
       IN  ends(afterDecompress(r.doc, r.idx, r.payload))
    /\ runs' = RemoveAt(runs, i)
    /\ UNCHANGED pure
    /\ UNCHANGED <<subscribed, isDisposed>>
    /\ UNCHANGED <<ctxReady, connected, content, diagramXml, currentPage,
                   totalPages, navSetup, issued>>

\* _updatePageDisplay after the click handler changed this._currentPage to p
updatePageDisplay(op, p) ==
    LET ends(out) ==
            /\ IF out.res = "await"
               THEN /\ runs' = Append(runs,
                           Run("nav", "decomp", issued + 1, diagramXml, p, out.payload))
                    /\ UNCHANGED <<container, containerShown, errorShown, errorMsg,
                                   ready>>
               ELSE /\ runs' = runs
                    /\ commit(Run("nav", "decomp", issued + 1, diagramXml, p, "none"),
                              out)
            /\ last' = Last(op, "nav", issued + 1, out.res, out.err, diagramXml, p)
    IN  /\ currentPage' = p
        /\ issued' = issued + 1
        /\ ends(renderPage(diagramXml, p))

\* a click is dispatched as a task of its own, on a button of the toolbar;
\* the node of a disposed widget is detached, and no click reaches it
clickable == navSetup /\ ~microtaskPending /\ ~isDisposed

\* click on #prevPage
prevPage ==
    /\ clickable
    /\ IF currentPage > 0
       THEN /\ issued <= MaxRuns
            /\ updatePageDisplay("prevPage", currentPage - 1)
       ELSE /\ last' = Last("prevPage", "none", 0, "noop", NoErr, NoDoc, 0)
            /\ UNCHANGED <<currentPage, issued, runs, container, containerShown,
                           errorShown, errorMsg, ready>>
    /\ UNCHANGED pure
    /\ UNCHANGED <<subscribed, isDisposed>>
    /\ UNCHANGED <<ctxReady, connected, content, diagramXml, totalPages, navSetup>>

\* click on #nextPage
nextPage ==
    /\ clickable
    /\ IF currentPage < totalPages - 1
       THEN /\ issued <= MaxRuns
            /\ updatePageDisplay("nextPage", currentPage + 1)
       ELSE /\ last' = Last("nextPage", "none", 0, "noop", NoErr, NoDoc, 0)
            /\ UNCHANGED <<currentPage, issued, runs, container, containerShown,
                           errorShown, errorMsg, ready>>
    /\ UNCHANGED pure
    /\ UNCHANGED <<subscribed, isDisposed>>
    /\ UNCHANGED <<ctxReady, connected, content, diagramXml, totalPages, navSetup>>

\* dispose(): nothing when the widget is disposed already; else the
\* listener is disconnected and the widget is disposed.  Suspended runs are
\* not cancelled.
dispose ==
    /\ IF isDisposed
       THEN /\ last' = Last("dispose", "none", 0, "noop", NoErr, NoDoc, 0)
            /\ UNCHANGED <<connected, isDisposed>>
       ELSE /\ connected' = FALSE
            /\ isDisposed' = TRUE
            /\ last' = Last("dispose", "none", 0, "none", NoErr, NoDoc, 0)
    /\ UNCHANGED pure
    /\ UNCHANGED <<ctxReady, subscribed, content, diagramXml, currentPage,
                   totalPages, navSetup, container, containerShown, errorShown,
                   errorMsg, ready, runs, issued>>

Init ==
    /\ constructed
    /\ fn = "none"
    /\ arg = <<>>
    /\ ret = <<>>

Next ==
    \/ \E d \in Docs : contextReady(d)
    \/ connectListener
    \/ \E d \in Docs : onContentChanged(d)
    \/ \E i \in 1..MaxRuns + 1 : loadDiagram(i)
    \/ \E i \in 1..MaxRuns + 1 : decompressed(i)
    \/ prevPage
    \/ nextPage
    \/ dispose

Spec == Init /\ [][Next]_vars

\* =================================================== function evaluations
\* The rendering functions of the widget read no field of it; each is
\* evaluated on its own, on arguments drawn from a bounded set.
widget == <<ctxReady, subscribed, connected, isDisposed, content, diagramXml,
            currentPage, totalPages, navSetup, container, containerShown,
            errorShown, errorMsg, ready, runs, issued, last>>

\* ------------------------------------------------------------ _parseStyle
StyleAlphabet == {"a", "1", "2", "=", ";", " "}

\* the style strings of n symbols
StyleInputs(n) == [1..n -> StyleAlphabet]

StyleInit ==
    /\ constructed
    /\ fn = "parseStyle"
    /\ \E n \in 0..MaxStyleLen : arg \in StyleInputs(n)
    /\ ret = <<>>

\* const styles = this._parseStyle(style)
callParseStyle ==
    /\ fn = "parseStyle"
    /\ ret = <<>>
    /\ ret' = <<parseStyle(arg)>>
    /\ UNCHANGED <<widget, fn, arg>>

StyleNext == callParseStyle

StyleSpec == StyleInit /\ [][StyleNext]_vars

\* ------------------------------------------------------ _decompressDiagram
\* The forward transform, as the editor that wrote the file applies it:
\* encodeURIComponent, raw deflate, base64 with '-' for '+' and '_' for '/'.
hexDigit(d) == IF d < 10 THEN 48 + d ELSE 55 + d

\* the characters encodeURIComponent leaves alone: A-Z a-z 0-9 - _ . ! ~ * ' ( )
unreserved(c) ==
    \/ c >= 65 /\ c <= 90
    \/ c >= 97 /\ c <= 122
    \/ c >= 48 /\ c <= 57
    \/ c \in {45, 95, 46, 33, 126, 42, 39, 40, 41}

\* the UTF-8 bytes of a character below U+0800
utf8(c) == IF c < 128 THEN <<c>> ELSE <<192 + (c \div 64), 128 + (c % 64)>>

escape(byte) == <<Ch.pct, hexDigit(byte \div 16), hexDigit(byte % 16)>>

RECURSIVE encodeURIComponent(_)
encodeURIComponent(s) ==
    IF s = <<>> THEN <<>>
    ELSE (IF unreserved(s[1]) THEN <<s[1]>>
          ELSE IF s[1] < 128 THEN escape(s[1])
          ELSE escape(utf8(s[1])[1]) \o escape(utf8(s[1])[2]))
         \o encodeURIComponent(Tail(s))

\* one stored block
storedBlock(final, data) ==
    <<final, Len(data) % 256, Len(data) \div 256,
      (65535 - Len(data)) % 256, (65535 - Len(data)) \div 256>> \o data

\* a raw-deflate stream of stored blocks for bytes: the first `at` bytes in a
\* block of their own when at > 0, the rest in the final block
deflateStored(bytes, at) ==
    (IF at > 0 THEN storedBlock(0, SubSeq(bytes, 1, at)) ELSE <<>>)
    \o storedBlock(1, SubSeq(bytes, at + 1, Len(bytes)))

base64urlChar(v) ==
    IF v < 26 THEN 65 + v
    ELSE IF v < 52 THEN 71 + v
    ELSE IF v < 62 THEN v - 4
    ELSE IF v = 62 THEN Ch.minus
    ELSE Ch.under

\* base64 of bytes in the URL-safe alphabet, with or without '=' padding
base64url(bytes, padded) ==
    LET n == (8 * Len(bytes) + 5) \div 6
        body == [k \in 1..n |-> base64urlChar(regroup(bytes, 8, 6, k))]
    IN  IF padded /\ n % 4 = 2 THEN body \o <<Ch.eq, Ch.eq>>
        ELSE IF padded /\ n % 4 = 3 THEN body \o <<Ch.eq>>
        ELSE body

forward(xml, at, padded) ==
    base64url(deflateStored(encodeURIComponent(xml), at), padded)

\* '<', 'a', '%', '2' and U+00E9
XmlChars == {60, 97, 37, 50, 233}

XmlInputs(n) == [1..n -> XmlChars]

CodecInit ==
    /\ constructed
    /\ fn = "decompressDiagram"
    /\ \E n \in 0..MaxXmlLen :
           \E s \in XmlInputs(n) : arg = [xml |-> s, compressed |-> <<>>, cut |-> 0]
    /\ ret = <<>>

\* the editor stores the page: the payload is the forward transform of xml
encodeForward(at, padded) ==
    /\ fn = "decompressDiagram"
    /\ arg.compressed = <<>>
    /\ at <= Len(encodeURIComponent(arg.xml))
    /\ arg' = [arg EXCEPT !.compressed = forward(arg.xml, at, padded)]
    /\ UNCHANGED <<widget, fn, ret>>

\* await this._decompressDiagram(diagramContent)
callDecompress(cut) ==
    /\ fn = "decompressDiagram"
    /\ arg.compressed # <<>>
    /\ ret = <<>>
    /\ arg' = [arg EXCEPT !.cut = cut]
    /\ ret' = <<decompressText(arg.compressed, cut)>>
    /\ UNCHANGED <<widget, fn>>

CodecNext ==
    \/ \E at \in 0..MaxXmlLen, padded \in BOOLEAN : encodeForward(at, padded)
    \/ \E cut \in 0..MaxXmlLen : callDecompress(cut)

CodecSpec == CodecInit /\ [][CodecNext]_vars

\* ----------------------------------------------------------- _createShape
\* parts joined by ';'
RECURSIVE joinParts(_)
joinParts(parts) ==
    IF parts = <<>> THEN <<>>
    ELSE IF Len(parts) = 1 THEN parts[1]
    ELSE parts[1] \o <<";">> \o joinParts(Tail(parts))

ShapeParts ==
    {<<"shape", "=", "ellipse">>, <<"shape", "=", "hexagon">>,
     <<"shape", "=", "cylinder">>, <<"shape", "=", "cloud">>,
     <<"ellipse">>, <<"rhombus">>, <<"triangle">>,
     <<"perimeter", "=", "ellipse", "Perimeter">>,
     <<"rounded", "=", "1">>, <<"rounded", "=", "0">>,
     <<"fillColor", "=", "none">>, <<"html", "=", "1">>}

ShapeStyles(n) == {joinParts(parts) : parts \in [1..n -> ShapeParts]}

LabelStyles == {<<>>, <<"fontSize", "=", "1", "0">>}

LabelChars ==
    {"A", "B", " ", "\n", "<br>", "<BR>", "<br/>", "<b>", "&lt;br&gt;"}

ShapeBoxes ==
    {[x |-> int(0), y |-> int(0), width |-> int(100), height |-> int(40)],
     [x |-> int(10), y |-> int(0 - 20), width |-> int(80), height |-> int(60)]}

ShapeInit ==
    /\ constructed
    /\ fn = "createShape"
    /\ \E box \in ShapeBoxes :
         \/ \E n \in 0..MaxShapeParts :
              \E style \in ShapeStyles(n), value \in {<<>>, <<"A">>} :
                 arg = [box |-> box, style |-> style, value |-> value]
         \/ \E n \in 0..MaxLabelLen :
              \E style \in LabelStyles, value \in [1..n -> LabelChars] :
                 arg = [box |-> box, style |-> style, value |-> value]
    /\ ret = <<>>

\* const shape = this._createShape(x, y, width, height, style, value)
callCreateShape ==
    /\ fn = "createShape"
    /\ ret = <<>>
    /\ ret' = <<createShape(arg.box.x, arg.box.y, arg.box.width, arg.box.height,
                            arg.style, arg.value)>>
    /\ UNCHANGED <<widget, fn, arg>>

ShapeNext == callCreateShape

ShapeSpec == ShapeInit /\ [][ShapeNext]_vars

\* ------------------------------------------------------------ _createEdge
\* an edge cell without geometry, with an empty one, with one waypoint, with
\* both explicit points, with a source point only, and a labelled one
EdgeCells ==
    {[geometry |-> Absent, value |-> Absent],
     [geometry |-> <<Geometry(Absent, Absent, <<>>)>>, value |-> Absent],
     [geometry |-> <<Geometry(Absent, Absent,
                              <<Point(<<"5", "0">>, <<"9", "0">>)>>)>>,
      value |-> Absent],
     [geometry |-> <<Geometry(<<Point(<<"1", "0">>, <<"2", "0">>)>>,
                              <<Point(<<"3", "0">>, <<>>)>>, <<>>)>>,
      value |-> Absent],
     [geometry |-> <<Geometry(<<Point(<<"1", "0">>, <<"2", "0">>)>>, Absent,
                              <<>>)>>,
      value |-> Absent],
     [geometry |-> <<Geometry(Absent, Absent, <<>>)>>, value |-> <<<<"A">>>>]}

EdgeBoxes ==
    {[x |-> int(100 * i), y |-> int(100 * j), width |-> w, height |-> h] :
        i \in 0..MaxGrid, j \in 0..MaxGrid,
        w \in {int(100), int(300)}, h \in {int(40), frac(1, 5)}}

EdgeInit ==
    /\ constructed
    /\ fn = "createEdge"
    /\ \E cell \in EdgeCells, style \in {<<>>, <<"endArrow", "=", "none">>} :
         \E source, target \in {<<>>} \cup {<<b>> : b \in EdgeBoxes} :
            arg = [cell |-> cell, style |-> style, source |-> source,
                   target |-> target]
    /\ ret = <<>>

\* const edgePath = this._createEdge(cell, style, vertices.get(source),
\* vertices.get(target))
callCreateEdge ==
    /\ fn = "createEdge"
    /\ ret = <<>>
    /\ ret' = <<createEdge(arg.cell, arg.style, arg.source, arg.target)>>
    /\ UNCHANGED <<widget, fn, arg>>

EdgeNext == callCreateEdge

EdgeSpec == EdgeInit /\ [][EdgeNext]_vars

\* ----------------------------------------------------------- _mxGraphToSvg
\* vertex a with an empty geometry; vertex b at 200, 0, 100 x 40; a second
\* vertex a at -50, 30 with an empty width and height 0.2; vertex c without
\* geometry; a cell that is no vertex, with a geometry at 900, 900; the edges
\* a-b without geometry, a-b with explicit points and a waypoint far from
\* the boxes, a-z, whose target is no cell, and z-b with a source point only
SvgCells ==
    {Vertex(<<"a">>, Absent, <<<<"A">>>>,
            <<VertexGeometry(Absent, Absent, Absent, Absent)>>),
     Vertex(<<"b">>, <<<<"ellipse">>>>, Absent,
            <<VertexGeometry(<<<<"2", "0", "0">>>>, <<<<"0">>>>,
                             <<<<"1", "0", "0">>>>, <<<<"4", "0">>>>)>>),
     Vertex(<<"a">>, Absent, Absent,
            <<VertexGeometry(<<<<"-", "5", "0">>>>, <<<<"3", "0">>>>, <<<<>>>>,
                             <<<<"0", ".", "2">>>>)>>),
     Vertex(<<"c">>, Absent, Absent, Absent),
     [id |-> <<<<"1">>>>, vertex |-> Absent, edge |-> Absent, style |-> Absent,
      value |-> Absent, source |-> Absent, target |-> Absent,
      geometry |-> <<VertexGeometry(<<<<"9", "0", "0">>>>, <<<<"9", "0", "0">>>>,
                                    Absent, Absent)>>],
     Edge(<<"a">>, <<"b">>, Absent),
     Edge(<<"a">>, <<"b">>,
          <<Geometry(<<Point(<<"9", "0", "0">>, <<"9", "0", "0">>)>>,
                     <<Point(<<"9", "5", "0">>, <<"9", "0", "0">>)>>,
                     <<Point(<<"9", "9", "9">>, <<"7", "0", "0">>)>>)>>),
     Edge(<<"a">>, <<"z">>, Absent),
     Edge(<<"z">>, <<"b">>,
          <<Geometry(<<Point(<<"1", "0">>, <<"2", "0">>)>>, Absent, <<>>)>>)}

SvgInit ==
    /\ constructed
    /\ fn = "mxGraphToSvg"
    /\ \/ arg = [root |-> <<>>]
       \/ \E n \in 0..MaxCells :
            \E cells \in [1..n -> SvgCells] : arg = [root |-> <<cells>>]
    /\ ret = <<>>

\* const svg = this._mxGraphToSvg(model)
callMxGraphToSvg ==
    /\ fn = "mxGraphToSvg"
    /\ ret = <<>>
    /\ ret' = <<mxGraphToSvg(arg)>>
    /\ UNCHANGED <<widget, fn, arg>>

SvgNext == callMxGraphToSvg

SvgSpec == SvgInit /\ [][SvgNext]_vars

\* --------------------------------------------------------- plugin.activate
\* The host's document registry is the list of its file types (a name and
\* the extensions it handles), the names of its widget factories and the
\* table naming the default factory of a file type.
FILE_TYPE == [name |-> "drawio", extensions |-> {".drawio", ".dio"}]

DRAWIO_EXTENSIONS == {".drawio", ".dio"}

DEFAULT_FILE_TYPE == "drawio"

\* String.prototype.toLowerCase on the names that occur
toLowerCase(name) ==
    IF name \in {"Drawio", "DrawIO"} THEN "drawio"
    ELSE IF name = "Draw.io Viewer" THEN "draw.io viewer"
    ELSE name

\* docRegistry.getFileType(name): the first file type of that name, letter
\* case apart; undefined (<<>>) when there is none
getFileType(registry, name) ==
    LET found == {i \in 1..Len(registry.fileTypes) :
                     toLowerCase(registry.fileTypes[i].name) = toLowerCase(name)}
    IN  IF found = {} THEN <<>>
        ELSE <<registry.fileTypes[CHOOSE i \in found : \A j \in found : i <= j]>>

\* docRegistry.addFileType(fileType): the file type joins the list
addFileType(registry, fileType) ==
    [registry EXCEPT !.fileTypes = Append(@, fileType)]

\* docRegistry.addWidgetFactory(factory): a factory whose name is taken is
\* not registered; else it is, and becomes the default of each of its
\* defaultFor names that is among its fileTypes
addWidgetFactory(registry, factory) ==
    IF \E n \in registry.factories : toLowerCase(n) = toLowerCase(factory.name)
    THEN registry
    ELSE [registry EXCEPT
             !.factories = @ \cup {factory.name},
             !.defaultFactories =
                 IF factory.defaultFor \in factory.fileTypes
                 THEN put(@, factory.defaultFor, factory.name) ELSE @]

\* new DrawioFactory({name: 'Draw.io Viewer', fileTypes: [fileTypeName],
\* defaultFor: [fileTypeName], ...})
DrawioFactory(fileTypeName) ==
    [name |-> "Draw.io Viewer", fileTypes |-> {fileTypeName},
     defaultFor |-> fileTypeName]

\* findDrawioFileType: the first of the common names the registry has a file
\* type for, else the name of the first file type handling .drawio or .dio,
\* else null (<<>>)
findDrawioFileType(docRegistry) ==
    LET commonNames == <<"vscode-drawio", "drawio", "Drawio", "DrawIO", "diagram">>
        named == {i \in 1..Len(commonNames) :
                     getFileType(docRegistry, commonNames[i]) # <<>>}
        handling == {i \in 1..Len(docRegistry.fileTypes) :
                        docRegistry.fileTypes[i].extensions \cap DRAWIO_EXTENSIONS # {}}
    IN  IF named # {}
        THEN <<commonNames[CHOOSE i \in named : \A j \in named : i <= j]>>
        ELSE IF handling # {}
        THEN <<docRegistry.fileTypes[CHOOSE i \in handling :
                                        \A j \in handling : i <= j].name>>
        ELSE <<>>

\* plugin.activate of index.ts: the file type is added, then the factory
activate(docRegistry) ==
    addWidgetFactory(addFileType(docRegistry, FILE_TYPE), DrawioFactory(FILE_TYPE.name))

\* plugin.activate with findDrawioFileType: the file type is added only when
\* none was found, and the factory is made for the name found
activateFound(docRegistry) ==
    LET register(fileTypeName) ==
            IF fileTypeName = <<>>
            THEN addWidgetFactory(
                     addFileType(docRegistry, [name |-> DEFAULT_FILE_TYPE,
                                               extensions |-> DRAWIO_EXTENSIONS]),
                     DrawioFactory(DEFAULT_FILE_TYPE))
            ELSE addWidgetFactory(docRegistry, DrawioFactory(fileTypeName[1]))
    IN  register(findDrawioFileType(docRegistry))

\* the file types a host may hold before the plugin is activated
HostFileTypes ==
    {[name |-> "text", extensions |-> {".txt"}],
     [name |-> "vscode-drawio", extensions |-> {".drawio", ".dio"}],
     [name |-> "diagram", extensions |-> {".dia"}],
     [name |-> "Drawio", extensions |-> {".drawio"}],
     [name |-> "graph", extensions |-> {".dio", ".graph"}]}

\* a registry of up to n distinct file types, each with the editor as default
HostRegistries(n) ==
    {[fileTypes |-> types, factories |-> {"Editor"},
      defaultFactories |-> [i \in 1..Len(types) |->
                               [key |-> types[i].name, value |-> "Editor"]]] :
        types \in {t \in [1..n -> HostFileTypes] :
                      \A i, j \in 1..n : t[i] = t[j] => i = j}}

PluginInit ==
    /\ constructed
    /\ fn = "activate"
    /\ \E n \in 0..MaxFileTypes : arg \in HostRegistries(n)
    /\ ret = <<>>

\* the host activates the plugin as index.ts has it
callActivate ==
    /\ fn = "activate"
    /\ ret = <<>>
    /\ ret' = <<activate(arg)>>
    /\ UNCHANGED <<widget, fn, arg>>

\* the host activates the plugin that looks for a file type first
callActivateFound ==
    /\ fn = "activate"
    /\ ret = <<>>
    /\ ret' = <<activateFound(arg)>>
    /\ UNCHANGED <<widget, fn, arg>>

PluginNext == callActivate \/ callActivateFound

PluginSpec == PluginInit /\ [][PluginNext]_vars

\* ================================================================ claims
\* the step that led here was a click on a page button
IsNav == last.op \in {"prevPage", "nextPage"}

\* the step that led here ran _renderPage(last.idx) on document last.doc
\* from its start
RenderRequested ==
    \/ last.op = "loadDiagram" /\ last.doc # NoDoc
    \/ IsNav /\ last.res # "noop"

\* C1: page navigation never leaves the page range: 'next' at
\* currentPage = totalPages-1 and 'previous' at currentPage = 0 are no-ops
\* that keep the index and start no render; every other navigation request
\* moves the index by exactly one and starts a render of the new index.
C1_NavigationWithinRange ==
    IsNav =>
      /\ 0 <= currentPage /\ currentPage <= totalPages - 1
      /\ (last.op = "nextPage" /\ last.prePage = last.preTotal - 1)
            => (last.res = "noop" /\ currentPage = last.prePage)
      /\ (last.op = "prevPage" /\ last.prePage = 0)
            => (last.res = "noop" /\ currentPage = last.prePage)
      /\ (last.op = "nextPage" /\ last.prePage # last.preTotal - 1)
            => (currentPage = last.prePage + 1 /\ last.res # "noop"
                /\ last.idx = currentPage)
      /\ (last.op = "prevPage" /\ last.prePage # 0)
            => (currentPage = last.prePage - 1 /\ last.res # "noop"
                /\ last.idx = currentPage)

\* C2: every load that succeeds, the initial one and every reload, whatever
\* page was selected before, has rendered page 0 and ends with page index 0.
C2_LoadEndsOnPageZero ==
    (last.kind = "load" /\ last.res = "render")
        => (last.idx = 0 /\ container = Svg(last.doc, 0) /\ currentPage = 0)

\* C3: a failure at any stage of any run, a navigation's run included, puts
\* the widget in the error state presenting that failure's message.
C3_EveryFailurePresented ==
    last.res = "throw"
        => (errorShown /\ errorMsg = last.err /\ Visible.kind = "error")

\* C4: the error state is not terminal: when a load succeeds while the error
\* of an earlier failed load is presented, the rendered page becomes the
\* visible output and the error is no longer presented.
C4_ReloadLeavesError ==
    (last.kind = "load" /\ last.res = "render" /\ last.preVisible.kind = "error")
        => (~errorShown /\ Visible = [kind |-> "page", out |-> Svg(last.doc, last.idx)])

\* the step that led here resumed a run from decompression after a newer
\* run had been started
StaleResumed == last.op = "decompressed" /\ last.id < last.preIssued

\* C5 (as claimed): a run that resumes from decompression after a newer run
\* was started commits nothing: neither its page nor its error changes the
\* container or the visible output.
C5_StaleRunCommitsNothing ==
    StaleResumed => (container = last.preContainer /\ Visible = last.preVisible)

\* C5 (amended): there is no run token. A run that resumes after a newer run
\* was started commits like any other: the page it renders replaces the
\* container's content, the error of a load is presented; only a navigation
\* run that fails leaves everything as it was.
C5_StaleRunCommits ==
    StaleResumed =>
      /\ last.res = "render" => container = Svg(last.doc, last.idx)
      /\ (last.res = "throw" /\ last.kind = "load")
            => (errorShown /\ errorMsg = last.err /\ ~containerShown)
      /\ (last.res = "throw" /\ last.kind = "nav")
            => (container = last.preContainer /\ Visible = last.preVisible)

\* a stale run has replaced the page a newer run rendered by its own
C5_Witness ==
    /\ StaleResumed
    /\ last.res = "render"
    /\ last.preContainer.kind = "svg"
    /\ last.preContainer # container
    /\ last.preContainer.doc = diagramXml

\* what a finished run has to show: its page, or the error it failed with
OutputOf(l) ==
    IF l.res = "render"
    THEN [kind |-> "page", out |-> Svg(l.doc, l.idx)]
    ELSE [kind |-> "error", err |-> l.err]

\* C6: no cancellation: an event that starts a run aborts no suspended run,
\* and when a run that a newer run overlapped ends after it, with no run left
\* suspended, the visible output is the output of the run that ended last.
C6_LastResolvedRunWins ==
    /\ (last.op \in {"contentChanged", "prevPage", "nextPage"})
          => \A i \in 1..Len(last.preRuns) :
                \E j \in 1..Len(runs) : runs[j] = last.preRuns[i]
    /\ (StaleResumed /\ runs = << >>) => Visible = OutputOf(last)

\* C7: the total page count is at least 1 in every state; once a document
\* has been parsed it is the number of its <diagram> elements when there is
\* at least one, and 1 (the implicit page) when there is none.
C7_TotalPagesAtLeastOne ==
    /\ totalPages >= 1
    /\ diagramXml # NoDoc =>
          /\ Len(DocTable[diagramXml].pages) >= 1
                => totalPages = Len(DocTable[diagramXml].pages)
          /\ Len(DocTable[diagramXml].pages) = 0 => totalPages = 1

\* a document without <diagram> elements has been parsed after one of three
\* pages, and the count went from 3 to 1
C7_Witness ==
    /\ last.op = "loadDiagram"
    /\ last.doc # NoDoc
    /\ Len(DocTable[last.doc].pages) = 0
    /\ last.preTotal = 3
    /\ totalPages = 1

\* the load step that led here read a blank text / a text the parser rejects
ReadBlank == last.op = "loadDiagram" /\ DocTable[content].text \in {"empty", "blank"}

ReadMalformed ==
    last.op = "loadDiagram" /\ DocTable[content].text = "markup" /\ DocTable[content].perr

\* C8: a load of an empty or whitespace-only text fails with EmptyDocument,
\* never with InvalidDocument; a load of a non-blank text the markup parser
\* rejects fails with InvalidDocument carrying the parser's diagnostic; in
\* both cases the error is presented and no page is rendered.
C8_InputValidation ==
    /\ ReadBlank => last.err = Err("EmptyDocument", "", 0)
    /\ ReadMalformed => last.err = Err("InvalidDocument", DocTable[content].diag, 0)
    /\ (ReadBlank \/ ReadMalformed) =>
          /\ last.res = "throw"
          /\ errorShown /\ errorMsg = last.err
          /\ container = last.preContainer
          /\ container.kind = "loading"

\* a whitespace-only text, which the parser would reject too, has been
\* reported as EmptyDocument while an earlier document was stored
C8_Witness ==
    /\ ReadBlank
    /\ DocTable[content].text = "blank"
    /\ DocTable[content].perr
    /\ errorMsg.type = "EmptyDocument"
    /\ last.preXml # NoDoc

\* the page count of a document, as the claims count it
PageCountOf(d) == IF Len(DocTable[d].pages) = 0 THEN 1 ELSE Len(DocTable[d].pages)

\* C9 (as claimed): rendering a page index greater than or equal to the
\* document's page count fails with PageNotFound and renders nothing, also
\* for a document without <diagram> elements (page count 1) and index >= 1.
C9_PageNotFoundBeyondCount ==
    (RenderRequested /\ last.idx >= PageCountOf(last.doc))
        => /\ last.res = "throw"
           /\ last.err = Err("PageNotFound", "", last.idx + 1)
           /\ container = last.preContainer

\* C9 (amended): for a document with at least one <diagram> element,
\* rendering an index greater than or equal to their number fails with
\* PageNotFound and renders nothing; for a document without <diagram>
\* elements the index is not consulted: its bare model is rendered, or the
\* run fails with 'No diagram content found' when it has none.
C9_PageNotFoundWithWrappers ==
    /\ (RenderRequested /\ Len(DocTable[last.doc].pages) >= 1
          /\ last.idx >= Len(DocTable[last.doc].pages))
        => /\ last.res = "throw"
           /\ last.err = Err("PageNotFound", "", last.idx + 1)
           /\ container = last.preContainer
    /\ (RenderRequested /\ Len(DocTable[last.doc].pages) = 0)
        => IF DocTable[last.doc].model
           THEN last.res = "render" /\ container = Svg(last.doc, 0)
           ELSE last.res = "throw" /\ last.err.type = "NoContent"
                /\ container = last.preContainer

\* page 3 has been requested of a document with fewer <diagram> elements
C9_Witness ==
    /\ RenderRequested
    /\ Len(DocTable[last.doc].pages) >= 1
    /\ last.idx = 2
    /\ last.idx >= Len(DocTable[last.doc].pages)
    /\ last.err.type = "PageNotFound"

\* the payload of the page the run that led here was rendering
PayloadOf(l) == DocTable[l.doc].pages[l.idx + 1]

\* the step that led here resumed a run whose codec step had failed
CodecFailed ==
    /\ last.op = "decompressed"
    /\ PayloadOf(last) \in {"badB64", "badInflate", "badPct"}

\* C10: a failure of a codec step is recovered inside the run: the run goes on
\* with the page's own text, so it ends in a rendered page or in
\* UnparsableContent; no run ever fails with, and the error panel never
\* presents, a DecodeError.
C10_DecodeErrorRecovered ==
    /\ CodecFailed =>
          \/ last.res = "render" /\ container = Svg(last.doc, last.idx)
          \/ last.res = "throw" /\ last.err = Err("UnparsableContent", "", 0)
    /\ last.err.type # "DecodeError"
    /\ errorMsg.type # "DecodeError"

\* a load whose page failed to inflate has ended in UnparsableContent
C10_Witness ==
    /\ CodecFailed
    /\ PayloadOf(last) = "badInflate"
    /\ last.kind = "load"
    /\ last.res = "throw"
    /\ errorShown /\ errorMsg.type = "UnparsableContent"

\* the style parser has returned
StyleParsed == fn = "parseStyle" /\ ret # <<>>

\* the text of a segment before its first '='
KeyText(seg) == split(seg, "=")[1]

\* segment seg declares key k: it has an '=', the text before the first one
\* is not empty and is k once trimmed
Declares(seg, k) ==
    /\ \E i \in 1..Len(seg) : seg[i] = "="
    /\ KeyText(seg) # <<>>
    /\ trim(KeyText(seg)) = k

\* C12: a key declared by more than one segment of the style string maps to the
\* value the parser reads from the last segment declaring it, keys being
\* compared after trimming; "a=1;a=2" gives a = "2"
C12_LastOccurrenceWins ==
    StyleParsed =>
        LET segs == split(arg, ";")
            keys == {trim(KeyText(segs[i])) : i \in 1..Len(segs)}
            occ(k) == {i \in 1..Len(segs) : Declares(segs[i], k)}
        IN  /\ \A k \in keys :
                  Cardinality(occ(k)) > 1 =>
                      LET n == CHOOSE i \in occ(k) : \A j \in occ(k) : j <= i
                      IN  /\ has(ret[1], k)
                          /\ get(ret[1], k) = get(parseStyle(segs[n]), k)
            /\ arg = <<"a", "=", "1", ";", "a", "=", "2">>
                  => ret[1] = <<[key |-> <<"a">>, value |-> <<"2">>]>>

\* " a=;a=2": the key is declared twice, once with surrounding whitespace, and
\* the parser has returned the second value
C12_Witness ==
    /\ StyleParsed
    /\ arg = <<" ", "a", "=", ";", "a", "=", "2">>
    /\ ret[1] = <<[key |-> <<"a">>, value |-> <<"2">>]>>

\* m is a mapping from strings to strings: no key is held twice
IsStyleMap(m) ==
    /\ \A i \in 1..Len(m) : DOMAIN m[i] = {"key", "value"}
    /\ \A i, j \in 1..Len(m) : m[i].key = m[j].key => i = j

\* C13: on every style string the parser returns a mapping, and on an empty or
\* whitespace-only one the mapping is empty
C13_ParserTotal ==
    fn = "parseStyle" =>
        /\ IsStyleMap(parseStyle(arg))
        /\ ret # <<>> => ret = <<parseStyle(arg)>>
        /\ (StyleParsed /\ \A i \in 1..Len(arg) : IsSpace(arg[i])) => ret[1] = <<>>

\* a whitespace-only style string has been parsed into the empty mapping
C13_Witness ==
    /\ StyleParsed
    /\ arg = <<" ", " ">>
    /\ ret[1] = <<>>

\* C14: decompressing the forward transform of an XML string yields exactly
\* that string, whatever blocks the deflater emitted, with or without base64
\* padding, and however the inflated bytes arrive in chunks
C14_RoundTrip ==
    (fn = "decompressDiagram" /\ ret # <<>>) => ret[1] = Ok(arg.xml)

\* "<%" followed by U+00E9 has made the round trip: its payload holds a '_',
\* and the inflated bytes were read in two chunks
C14_Witness ==
    /\ fn = "decompressDiagram"
    /\ ret # <<>>
    /\ arg.xml = <<60, 37, 233>>
    /\ \E i \in 1..Len(arg.compressed) : arg.compressed[i] = Ch.under
    /\ arg.cut > 0
    /\ arg.cut < Len(encodeURIComponent(arg.xml))
    /\ ret[1] = Ok(arg.xml)

\* _createShape has returned
ShapeCreated == fn = "createShape" /\ ret # <<>>

Keywords == <<"ellipse", "rhombus", "hexagon", "triangle", "cylinder">>

\* element el is the primitive of keyword kw ("rect": the default rectangle)
\* for box b
Draws(el, b, kw) ==
    CASE kw = "ellipse" ->
           /\ el.tag = "ellipse"
           /\ el.at = <<plus(b.x, half(b.width)), plus(b.y, half(b.height)),
                        half(b.width), half(b.height)>>
      [] kw = "rhombus" -> el.tag = "polygon" /\ Len(el.at) = 8
      [] kw = "hexagon" -> el.tag = "polygon" /\ Len(el.at) = 12
      [] kw = "triangle" -> el.tag = "polygon" /\ Len(el.at) = 6
      [] kw = "cylinder" ->
           /\ el.tag = "rect"
           /\ el.corner = <<half(half(b.width)), half(half(half(b.height)))>>
      [] OTHER ->
           /\ el.tag = "rect"
           /\ el.at = <<b.x, b.y, b.width, b.height>>
           /\ el.corner \in {<<>>, <<int(5), int(5)>>}

\* the value of the shape key of the style created from ("" when absent)
ShapeKey == getOr(parseStyle(arg.style), <<"shape">>, <<>>)

\* the keywords, by rank, that occur in the style string created from
KeywordsIn == {i \in 1..5 : includes(arg.style, <<Keywords[i]>>)}

\* C16: a style with no known shape value and no keyword in it gives the
\* default rectangle, with corner radii exactly when rounded is "1"; shape =
\* ellipse or the substring ellipse gives an ellipse; of the keywords that
\* occur in the style string the first in the order ellipse, rhombus,
\* hexagon, triangle, cylinder decides the primitive
C16_ShapeClassification ==
    ShapeCreated =>
        LET el == ret[1].shape
            styles == parseStyle(arg.style)
            rounded == has(styles, <<"rounded">>)
                       /\ get(styles, <<"rounded">>) = <<"1">>
        IN  /\ (KeywordsIn = {} /\ \A i \in 1..5 : ShapeKey # <<Keywords[i]>>)
                  => /\ Draws(el, arg.box, "rect")
                     /\ el.corner = (IF rounded THEN <<int(5), int(5)>> ELSE <<>>)
            /\ (ShapeKey = <<"ellipse">> \/ 1 \in KeywordsIn)
                  => Draws(el, arg.box, "ellipse")
            /\ KeywordsIn # {}
                  => Draws(el, arg.box,
                           Keywords[CHOOSE i \in KeywordsIn :
                                        \A j \in KeywordsIn : i <= j])

\* a shape has been created for "triangle;rhombus": the rhombus, which comes
\* first in the order, and for "rounded=1": the rounded rectangle
C16_Witness ==
    /\ ShapeCreated
    /\ \/ /\ arg.style = <<"triangle", ";", "rhombus">>
          /\ Draws(ret[1].shape, arg.box, "rhombus")
       \/ /\ arg.style = <<"rounded", "=", "1">>
          /\ ret[1].shape.corner = <<int(5), int(5)>>

\* C17: a style whose shape key is present is classified from that key
\* alone, a keyword elsewhere in the style string notwithstanding: a known
\* value gives its primitive, an unknown one the default rectangle
C17_ShapeKeyFirst ==
    (ShapeCreated /\ ShapeKey # <<>>) =>
        IF \E i \in 1..5 : ShapeKey = <<Keywords[i]>>
        THEN Draws(ret[1].shape, arg.box, ShapeKey[1])
        ELSE Draws(ret[1].shape, arg.box, "rect")

\* the line-break symbols of a cell value: the newline and the break tags
LineBreaks == {"\n", "<br>", "<BR>", "<br/>"}

\* C18: a value of two text pieces with one line break between them, a
\* newline or a break tag in any spelling, is drawn as exactly two lines,
\* both centred horizontally on the box, fontSize * 1.2 apart and symmetric
\* about the box's vertical centre; a value without a line break is drawn as
\* one text without lines
C18_TwoLineLabel ==
    (ShapeCreated /\ arg.value # <<>>) =>
        LET v == arg.value
            label == ret[1].label[1]
            cx == plus(arg.box.x, half(arg.box.width))
            cy == plus(arg.box.y, half(arg.box.height))
            fontSize == parseFloat(getOr(parseStyle(arg.style), <<"fontSize">>,
                                         <<"1", "2">>))
            breaks == {i \in 1..Len(v) : v[i] \in LineBreaks}
            texts == {i \in 1..Len(v) : v[i] \in {"A", "B"}}
        IN  /\ (Cardinality(breaks) = 1 /\ breaks \cup texts = 1..Len(v)
                   /\ 1 \in texts /\ Len(v) \in texts)
                  => /\ Len(label.tspans) = 2
                     /\ label.tspans[1].x = cx /\ label.tspans[2].x = cx
                     /\ minus(label.tspans[2].y, label.tspans[1].y)
                           = times(fontSize, frac(6, 5))
                     /\ plus(label.tspans[1].y, label.tspans[2].y) = plus(cy, cy)
            /\ texts = 1..Len(v)
                  => label.tspans = <<>> /\ label.textContent = v

\* _createEdge has returned
EdgeCreated == fn = "createEdge" /\ ret # <<>>

\* the ratio of the claim for a box: min(halfWidth/|dx|, halfHeight/|dy|)
\* capped at 0.5, a quotient by 0 counting as infinite
ClaimedRatio(box, dx, dy) ==
    LET rx == over(half(box.width), mathAbs(orOne(dx)))
        ry == over(half(box.height), mathAbs(orOne(dy)))
    IN  mathMin(IF dx.num = 0 THEN ry ELSE IF dy.num = 0 THEN rx
                ELSE mathMin(rx, ry),
                frac(1, 2))

\* point p lies strictly between a and b on the segment joining them:
\* p = a + t (b - a) with 0 < t < 1
StrictlyBetween(p, a, b) ==
    LET online == times(minus(p[1], a[1]), minus(b[2], a[2]))
                      = times(minus(p[2], a[2]), minus(b[1], a[1]))
        inside(i) == \/ less(a[i], p[i]) /\ less(p[i], b[i])
                     \/ less(b[i], p[i]) /\ less(p[i], a[i])
                     \/ a[i] = b[i] /\ p[i] = a[i]
    IN  online /\ inside(1) /\ inside(2)

\* C15: an edge without explicit points between two boxes with distinct
\* centres starts at the source centre and ends at the target centre, each
\* moved toward the other by min(halfWidth/|dx|, halfHeight/|dy|) capped at
\* 0.5; both points lie strictly between the centres, and the start point is
\* no farther from the source centre than the midpoint
C15_EdgeClipping ==
    (EdgeCreated /\ arg.source # <<>> /\ arg.target # <<>>
       /\ (arg.cell.geometry = <<>>
            \/ (arg.cell.geometry[1].sourcePoint = <<>>
                /\ arg.cell.geometry[1].targetPoint = <<>>))) =>
        LET a == arg.source[1]
            b == arg.target[1]
            ca == <<plus(a.x, half(a.width)), plus(a.y, half(a.height))>>
            cb == <<plus(b.x, half(b.width)), plus(b.y, half(b.height))>>
            dx == minus(cb[1], ca[1])
            dy == minus(cb[2], ca[2])
            mid == <<half(plus(ca[1], cb[1])), half(plus(ca[2], cb[2]))>>
            path == ret[1][1]
        IN  ca # cb =>
              /\ ret[1] # <<>>
              /\ path.start = <<plus(ca[1], times(dx, ClaimedRatio(a, dx, dy))),
                                plus(ca[2], times(dy, ClaimedRatio(a, dx, dy)))>>
              /\ path.end = <<minus(cb[1], times(dx, ClaimedRatio(b, dx, dy))),
                              minus(cb[2], times(dy, ClaimedRatio(b, dx, dy)))>>
              /\ StrictlyBetween(path.start, ca, cb)
              /\ StrictlyBetween(path.end, ca, cb)
              /\ path.start = mid \/ StrictlyBetween(path.start, ca, mid)

\* _mxGraphToSvg has returned
SvgBuilt == fn = "mxGraphToSvg" /\ ret # <<>>

\* the number an attribute stands for, dflt when the attribute is absent or
\* empty
NumberOr(a, dflt) == IF a = <<>> \/ a[1] = <<>> THEN int(dflt) ELSE parseFloat(a[1])

\* the geometries of the vertices of the model built from
VertexGeometries ==
    IF arg.root = <<>> THEN {}
    ELSE {arg.root[1][i].geometry[1] :
             i \in {j \in 1..Len(arg.root[1]) :
                       /\ arg.root[1][j].vertex = <<<<"1">>>>
                       /\ arg.root[1][j].geometry # <<>>}}

Least(S) == CHOOSE m \in S : \A n \in S : ~less(n, m)

Greatest(S) == CHOOSE m \in S : \A n \in S : ~less(m, n)

\* C19: for a model with at least one vertex that has a geometry the viewBox
\* is minX - 30, minY - 30, maxX - minX + 60, maxY - minY + 60 over the
\* vertices' x, y, x + width and y + height (defaults 0, 0, 100, 40); no
\* point of an edge enters it
C19_ViewBoxBoundsVertices ==
    (SvgBuilt /\ VertexGeometries # {}) =>
        LET left(g) == NumberOr(g.x, 0)
            top(g) == NumberOr(g.y, 0)
            right(g) == plus(left(g), NumberOr(g.width, 100))
            bottom(g) == plus(top(g), NumberOr(g.height, 40))
            minX == Least({left(g) : g \in VertexGeometries})
            minY == Least({top(g) : g \in VertexGeometries})
            maxX == Greatest({right(g) : g \in VertexGeometries})
            maxY == Greatest({bottom(g) : g \in VertexGeometries})
        IN  ret[1].viewBox = <<minus(minX, int(30)), minus(minY, int(30)),
                               plus(minus(maxX, minX), int(60)),
                               plus(minus(maxY, minY), int(60))>>

\* the default box at 0, 0 and the box at 200, 0 with an edge between them
\* whose explicit points lie far outside: the viewBox is -30 -30 360 100
C19_Witness ==
    /\ SvgBuilt
    /\ arg.root # <<>>
    /\ Len(arg.root[1]) = 3
    /\ arg.root[1][1].id = <<<<"a">>>> /\ arg.root[1][1].value # <<>>
    /\ arg.root[1][2].id = <<<<"b">>>>
    /\ arg.root[1][3].edge = <<<<"1">>>> /\ arg.root[1][3].geometry # <<>>
    /\ Len(ret[1].g) = 3
    /\ ret[1].viewBox = <<int(0 - 30), int(0 - 30), int(360), int(100)>>

\* C20: a model without a vertex that has a geometry, be it one with edges
\* only, without cells or without a root element, gets the viewBox 0 0 400 300
C20_DefaultViewBox ==
    (SvgBuilt /\ VertexGeometries = {}) =>
        ret[1].viewBox = <<int(0), int(0), int(400), int(300)>>

\* the primitives a model asks for: one for each vertex with a geometry, one
\* for each edge whose source and target are vertices of the model
PrimitivesAsked(model) ==
    LET cells == model.root[1]
        ids == {cells[j].id : j \in {k \in 1..Len(cells) : isVertex(cells[k])}}
    IN  Cardinality({j \in 1..Len(cells) :
                        \/ isVertex(cells[j])
                        \/ /\ cells[j].edge = <<<<"1">>>>
                           /\ cells[j].source \in ids
                           /\ cells[j].target \in ids})

\* C11: the container holds the loading placeholder or the complete tree of
\* exactly one page, with every primitive its model asks for and no other;
\* a run that fails leaves the container as it was
C11_AllOrNothing ==
    /\ \/ container = Loading
       \/ \E d \in Docs, i \in 0..2 :
             /\ container = Svg(d, i)
             /\ container.tree = mxGraphToSvg(PageModels[modelOf(d, i)])
             /\ Len(container.tree.g) = PrimitivesAsked(PageModels[modelOf(d, i)])
    /\ last.res = "throw" => container = last.preContainer

\* a navigation to a page that cannot be decoded has failed, and the
\* container still holds the three primitives of the page shown before
C11_Witness ==
    /\ last.kind = "nav"
    /\ last.res = "throw"
    /\ container = Svg("three", 0)
    /\ Len(container.tree.g) = 3

\* the text of a segment after its first '='
ValueText(seg) ==
    LET i == CHOOSE i \in 1..Len(seg) : seg[i] = "=" /\ \A j \in 1..(i - 1) : seg[j] # "="
    IN  SubSeq(seg, i + 1, Len(seg))

\* C24: a segment is split on its first '=' only: the key it declares maps to
\* the whole trimmed text after that '=', whatever further '=' it holds
\* ("a=b=c" gives a = "b=c"), the last declaring segment deciding; a segment
\* without '=' declares nothing
C24_SplitOnFirstEquals ==
    StyleParsed =>
        LET segs == split(arg, ";")
            occ(k) == {i \in 1..Len(segs) : Declares(segs[i], k)}
            keys == {k \in {trim(KeyText(segs[i])) : i \in 1..Len(segs)} : occ(k) # {}}
        IN  /\ \A i \in 1..Len(ret[1]) : occ(ret[1][i].key) # {}
            /\ \A k \in keys :
                  LET n == CHOOSE i \in occ(k) : \A j \in occ(k) : j <= i
                  IN  /\ has(ret[1], k)
                      /\ get(ret[1], k) = trim(ValueText(segs[n]))

\* the ids of the vertex cells with a geometry: the keys of the VertexBox table
BoxIds(cells) ==
    {attrOr(cells[j].id, <<>>) : j \in {k \in 1..Len(cells) : isVertex(cells[k])}}

\* the cell has an explicit source point and an explicit target point
ExplicitEnds(cell) ==
    /\ cell.geometry # <<>>
    /\ cell.geometry[1].sourcePoint # <<>>
    /\ cell.geometry[1].targetPoint # <<>>

\* the edge cell lacks an explicit point, and its source id or its target id
\* is no key of the table
Unresolved(cell, cells) ==
    /\ ~ExplicitEnds(cell)
    /\ \/ attrOr(cell.source, <<>>) \notin BoxIds(cells)
       \/ attrOr(cell.target, <<>>) \notin BoxIds(cells)

\* C21: an edge cell that lacks an explicit point and has an end that is no
\* key of the table adds nothing: the <svg> is the one of the model without
\* that cell; every other edge cell adds one path, and without that path the
\* <svg> holds what the model without the cell gives
C21_UnresolvedEdgeOmitted ==
    (SvgBuilt /\ arg.root # <<>>) =>
        \A j \in 1..Len(arg.root[1]) :
            LET cells == arg.root[1]
                without == mxGraphToSvg([root |-> <<RemoveAt(cells, j)>>])
            IN  cells[j].edge = <<<<"1">>>> =>
                    IF Unresolved(cells[j], cells)
                    THEN ret[1] = without
                    ELSE \E p \in 1..Len(ret[1].g) :
                            /\ ret[1].g[p].path # <<>>
                            /\ ret[1].g[p].shape = <<>>
                            /\ RemoveAt(ret[1].g, p) = without.g

\* the ellipse b and, after it, the edge z-b with a source point only: b's
\* box resolves, z is no vertex, and the <svg> holds the ellipse alone
C21_Witness ==
    /\ SvgBuilt
    /\ arg.root # <<>>
    /\ Len(arg.root[1]) = 2
    /\ arg.root[1][1].id = <<<<"b">>>> /\ isVertex(arg.root[1][1])
    /\ arg.root[1][2].edge = <<<<"1">>>>
    /\ arg.root[1][2].source = <<<<"z">>>>
    /\ arg.root[1][2].geometry # <<>>
    /\ arg.root[1][2].geometry[1].sourcePoint # <<>>
    /\ Len(ret[1].g) = 1
    /\ ret[1].g[1].shape # <<>>

\* the paths of an <svg>, in document order
Paths(svg) == SelectSeq(svg.g, LAMBDA e : e.path # <<>>)

IsEdge(cell) == cell.edge = <<<<"1">>>>

IsNoEdge(cell) == cell.edge # <<<<"1">>>>

\* the cells with every edge cell moved ahead of the other cells, and behind
\* them; the order among the edges and among the others is kept
EdgesFirst(cells) == SelectSeq(cells, IsEdge) \o SelectSeq(cells, IsNoEdge)

EdgesLast(cells) == SelectSeq(cells, IsNoEdge) \o SelectSeq(cells, IsEdge)

\* C23: the paths a model yields do not depend on where its edge cells stand
\* among the vertex cells: with every edge ahead of every vertex, and with
\* every edge behind them, the same paths are yielded as in the given order
C23_OrderIndependentEdges ==
    (SvgBuilt /\ arg.root # <<>>) =>
        /\ Paths(ret[1]) = Paths(mxGraphToSvg([root |-> <<EdgesFirst(arg.root[1])>>]))
        /\ Paths(ret[1]) = Paths(mxGraphToSvg([root |-> <<EdgesLast(arg.root[1])>>]))

\* the edge a-b stands ahead of the vertices a and b, and its path has been
\* drawn between their boxes
C23_Witness ==
    /\ SvgBuilt
    /\ arg.root # <<>>
    /\ Len(arg.root[1]) = 3
    /\ IsEdge(arg.root[1][1]) /\ arg.root[1][1].geometry = <<>>
    /\ arg.root[1][1].target = <<<<"b">>>>
    /\ arg.root[1][2].id = <<<<"a">>>> /\ isVertex(arg.root[1][2])
    /\ arg.root[1][3].id = <<<<"b">>>> /\ isVertex(arg.root[1][3])
    /\ Len(ret[1].g) = 3
    /\ ret[1].g[1].path # <<>>
    /\ ret[1].g[1].path[1].end[1] = int(200)

\* plugin.activate has returned
Activated == fn = "activate" /\ ret # <<>>

\* C22: after activation, whatever file types the registry held before, it
\* holds a file type named 'drawio' handling .drawio and .dio, and the factory
\* 'Draw.io Viewer' is registered and is the default of a file type handling
\* .drawio
C22_DrawioTypeAndFactory ==
    Activated =>
        LET types == {ret[1].fileTypes[i] : i \in 1..Len(ret[1].fileTypes)}
        IN  /\ \E ft \in types :
                  ft.name = "drawio" /\ {".drawio", ".dio"} \subseteq ft.extensions
            /\ "Draw.io Viewer" \in ret[1].factories
            /\ \E ft \in types :
                  /\ ".drawio" \in ft.extensions
                  /\ has(ret[1].defaultFactories, ft.name)
                  /\ get(ret[1].defaultFactories, ft.name) = "Draw.io Viewer"

\* C25: in every reachable state the current page index is a page of the
\* stored document: 0 <= currentPage <= totalPages - 1
C25_PageIndexInRange == 0 <= currentPage /\ currentPage <= totalPages - 1

\* C26: a load that read a blank text or a text the parser rejects, that is
\* every load failing with EmptyDocument or InvalidDocument, leaves the
\* stored document text, the page count and the page index as they were; a
\* navigation renders a page of the stored document and leaves it stored
C26_FailedLoadKeepsDocument ==
    /\ (last.op = "loadDiagram"
          /\ (ReadBlank \/ ReadMalformed
                \/ last.err.type \in {"EmptyDocument", "InvalidDocument"}))
          => /\ last.res = "throw"
             /\ diagramXml = last.preXml
             /\ totalPages = last.preTotal
             /\ currentPage = last.prePage
    /\ (IsNav /\ last.res # "noop")
          => (last.doc = last.preXml /\ diagramXml = last.preXml)

\* a reload of a text the parser rejects has failed while page 2 of a
\* three-page document was selected, and all three fields are as before
C26_Witness ==
    /\ last.op = "loadDiagram"
    /\ last.err.type = "InvalidDocument"
    /\ last.preXml = "three" /\ diagramXml = "three"
    /\ last.prePage = 1 /\ currentPage = 1
    /\ totalPages = 3

\* the step that led here ended a load run, with a page or with an error
LoadEnded == last.kind = "load" /\ last.res \in {"render", "throw"}

\* C27: `ready` is settled at most once, by the first load run that ends:
\* resolved when that run rendered, rejected with the run's error when it
\* failed; a load run that ends later, a navigation run and every other step
\* leave it as it is
C27_ReadySettledOnce ==
    /\ (LoadEnded /\ last.preReady = Pending) =>
          /\ last.res = "render" => ready = Resolved
          /\ last.res = "throw" => ready = Rejected(last.err)
    /\ (~LoadEnded \/ last.preReady # Pending) => ready = last.preReady
    /\ ready.state \in {"pending", "resolved", "rejected"}

\* a reload has failed and its error is presented, while `ready` is still
\* resolved by the first load
C27_Witness ==
    /\ LoadEnded
    /\ last.res = "throw"
    /\ last.preReady = Resolved
    /\ ready = Resolved
    /\ errorShown

\* C28: once dispose() has been called no content-change notification starts
\* a load run, whether dispose() came before or after the host context
\* became ready
C28_NoLoadAfterDispose == last.op = "contentChanged" => ~isDisposed

====
